---- MODULE Spec2Model ----
(***************************************************************************)
(* The shader helper class of the LearnOpenGL demos (util/shader.hpp and   *)
(* its implementation), the part of the OpenGL context it drives, and the  *)
(* demo programs that use it.                                              *)
(*                                                                         *)
(* The OpenGL calls are modelled by what the OpenGL 3.3 core specification *)
(* says they do to the context (object names, compile and link status,     *)
(* the current-program slot, uniform storage); the C++ around them is      *)
(* translated statement by statement.                                      *)
(***************************************************************************)
EXTENDS Integers, Sequences, FiniteSets, TLC

VARIABLES
    files,      \* the file system: path -> source text, or Unreadable
    nextName,   \* the GL context's next unused object name
    shaders,    \* live shader objects (units): name -> record
    programs,   \* live program objects: name -> record
    current,    \* the context's current-program slot (0: none)
    log,        \* the spdlog error sink: the diagnostics emitted so far
    obj,        \* the shader class objects: resource -> [state, m_id]
    ctor,       \* the locals of the running shader constructor, or NoCtor
    proc,       \* the process: "running", "aborted", "exit_failure", "exited"
    pc,         \* the position of main
    window_should_close,    \* main's close flag
    vertex_array,           \* the context's current-vertex-array slot (0: none)
    last,       \* the most recent public member-function call and its arguments
    demo,       \* the demo program that is running ("none": a client of the class)
    vertex_spec,    \* the vertex array object and the buffers main has set up
    block,      \* the use / set_* / unbind block main is in: its writes, where it ends
    cursor,     \* main's position in a run of uniform writes or of draw calls
    locals,     \* main's other local variables (velocities, offsets, fov, window size, ...)
    sdl         \* what main holds of SDL: the library, window, renderer and GL context

glvars == <<nextName, shaders, programs, current>>
mainvars == <<pc, window_should_close, vertex_array>>
NoCall == [op |-> "none", self |-> "none", id |-> "none", value |-> 0]
NoVertexSpec == [array_binding |-> 0, element_binding |-> 0, array_buffer |-> 0,
                 attribs |-> << >>, elements |-> << >>]
NoBlock == [writes |-> << >>, ret |-> "none"]
NoLocals == [translate_x |-> 0, translate_y |-> 0, translate_x_acc |-> 0, translate_y_acc |-> 0,
             fov |-> 0, window_width |-> 0, window_height |-> 0,
             dragging |-> FALSE, last_mouse_x |-> 0, last_mouse_y |-> 0,
             cam |-> [yaw |-> 0, pitch |-> 0]]
NoSdl == [lib |-> FALSE, window |-> FALSE, renderer |-> FALSE, gl_context |-> FALSE]
vars == <<files, nextName, shaders, programs, current, log, obj, ctor, proc,
          pc, window_should_close, vertex_array, last, demo, vertex_spec, block, cursor,
          locals, sdl>>

----------------------------------------------------------------------------
(* Bounds of the model.                                                    *)

\* scalar uniform values written by the callers range over 0..MaxScalar
MaxScalar == 1

----------------------------------------------------------------------------
(* Inputs: shader source texts and the files that hold them.               *)

Resources == {"r1", "r2"}

Unreadable == "<unreadable>"

\* What the driver's GLSL compiler and linker see in a source text: the stage
\* it is written for, whether it is free of syntax errors, the uniforms it
\* declares (in declaration order), the varyings it writes / reads and, for
\* a vertex text, the component count of the input at each `location`.
\* Texts named after a demo's file are of files that are not in the
\* repository: they are taken to be valid and to declare the uniforms their
\* demo writes; their vertex inputs are not known.
SourceText(t) ==
    CASE t = "vs_transform" ->
           [stage |-> "vertex", valid |-> TRUE,
            uniforms |-> << [name |-> "transform", type |-> "mat4"] >>,
            varyings |-> {"ourColor", "texCoord"},
            attributes |-> (0 :> 3 @@ 1 :> 3 @@ 2 :> 2)]
      [] t = "vs_color" ->
           [stage |-> "vertex", valid |-> TRUE,
            uniforms |-> << >>,
            varyings |-> {"ourColor"},
            attributes |-> (0 :> 3 @@ 1 :> 3)]
      [] t = "vs_pos" ->
           [stage |-> "vertex", valid |-> TRUE,
            uniforms |-> << >>,
            varyings |-> {},
            attributes |-> (0 :> 3)]
      [] t = "vs_plain" ->
           [stage |-> "vertex", valid |-> TRUE,
            uniforms |-> << >>,
            varyings |-> {"texCoord"},
            attributes |-> << >>]
      [] t = "DVD_ScreenSaver/shader.vs.glsl" ->
           [stage |-> "vertex", valid |-> TRUE,
            uniforms |-> << [name |-> "transform", type |-> "mat4"] >>,
            varyings |-> {"texCoord"},
            attributes |-> << >>]
      [] t = "FreeCameraMovement/shader.vs.glsl" ->
           [stage |-> "vertex", valid |-> TRUE,
            uniforms |-> << [name |-> "model", type |-> "mat4"],
                            [name |-> "view", type |-> "mat4"],
                            [name |-> "projection", type |-> "mat4"] >>,
            varyings |-> {"texCoord"},
            attributes |-> << >>]
      [] t = "vs_broken" ->
           [stage |-> "vertex", valid |-> FALSE,
            uniforms |-> << >>, varyings |-> {}, attributes |-> << >>]
      [] t = "fs_objcolor" ->
           [stage |-> "fragment", valid |-> TRUE,
            uniforms |-> << [name |-> "texture_sample", type |-> "int"],
                            [name |-> "objColor", type |-> "vec4"] >>,
            varyings |-> {"texCoord"}, attributes |-> << >>]
      [] t = "fs_color" ->
           [stage |-> "fragment", valid |-> TRUE,
            uniforms |-> << >>,
            varyings |-> {"ourColor"}, attributes |-> << >>]
      [] t = "fs_orange" ->
           [stage |-> "fragment", valid |-> TRUE,
            uniforms |-> << >>,
            varyings |-> {}, attributes |-> << >>]
      [] t = "fs_ourcolor" ->
           [stage |-> "fragment", valid |-> TRUE,
            uniforms |-> << [name |-> "ourColor", type |-> "float"] >>,
            varyings |-> {}, attributes |-> << >>]
      [] t = "fs_plain" ->
           [stage |-> "fragment", valid |-> TRUE,
            uniforms |-> << >>,
            varyings |-> {"texCoord"}, attributes |-> << >>]
      [] t = "fs_two_textures" ->
           [stage |-> "fragment", valid |-> TRUE,
            uniforms |-> << [name |-> "texture1", type |-> "int"],
                            [name |-> "texture2", type |-> "int"] >>,
            varyings |-> {"texCoord"}, attributes |-> << >>]
      [] t = "fs_broken" ->
           [stage |-> "fragment", valid |-> FALSE,
            uniforms |-> << >>, varyings |-> {}, attributes |-> << >>]
      [] t = "fs_unlinkable" ->
           [stage |-> "fragment", valid |-> TRUE,
            uniforms |-> << >>, varyings |-> {"undeclared"}, attributes |-> << >>]
      [] OTHER ->
           [stage |-> "none", valid |-> FALSE,
            uniforms |-> << >>, varyings |-> {}, attributes |-> << >>]

VsPaths == {"shader.vs.glsl", "shader.vs", "broken.vs", "missing.vs"}
FsPaths == {"shader.fs.glsl", "shader.fs", "broken.fs", "unlinkable.fs", "missing.fs"}
Paths == VsPaths \cup FsPaths

\* The files the class is exercised on.
DefaultFiles ==
    [p \in Paths |->
        CASE p = "shader.vs.glsl" -> "vs_transform"
          [] p = "shader.vs"      -> "vs_plain"
          [] p = "broken.vs"      -> "vs_broken"
          [] p = "shader.fs.glsl" -> "fs_objcolor"
          [] p = "shader.fs"      -> "fs_ourcolor"
          [] p = "broken.fs"      -> "fs_broken"
          [] p = "unlinkable.fs"  -> "fs_unlinkable"
          [] OTHER                -> Unreadable]

\* The uniform names the client passes to each setter: a name of a type the
\* setter can write, "nonexistent" (declared by no source) and, for
\* set_int, the name of a float uniform.
BoolNames  == {"texture_sample", "nonexistent"}
IntNames   == {"texture_sample", "ourColor", "nonexistent"}
FloatNames == {"ourColor", "nonexistent"}
Vec4Names  == {"objColor", "nonexistent"}
Mat4Names  == {"transform", "nonexistent"}

Scalars == 0..MaxScalar

\* glm::mat4 is column-major: a matrix is its four columns, m[c][r].
Identity == << <<1, 0, 0, 0>>, <<0, 1, 0, 0>>, <<0, 0, 1, 0>>, <<0, 0, 0, 1>> >>
ZeroMat  == << <<0, 0, 0, 0>>, <<0, 0, 0, 0>>, <<0, 0, 0, 0>>, <<0, 0, 0, 0>> >>
\* glm::translate(mat4{1}, vec3{1, 0, 0}): the translation sits in column 3
Translation == << <<1, 0, 0, 0>>, <<0, 1, 0, 0>>, <<0, 0, 1, 0>>, <<1, 0, 0, 1>> >>
Mats == {Identity, Translation}

Vec4s == { <<1, 1, 1, 1>> }

----------------------------------------------------------------------------
(* The OpenGL context, as the calls of the shader class act on it.         *)

NoProgram == 0

\* glCompileShader: the compile status the driver can report for a source.
\* A text with a syntax error, or written for the other stage, is rejected;
\* the empty text is accepted by some drivers and rejected by others.
glCompileStatuses(type, source) ==
    IF source = ""
    THEN {TRUE, FALSE}
    ELSE {SourceText(source).valid /\ SourceText(source).stage = type}

\* glGetShaderInfoLog / glGetProgramInfoLog: the text of the driver's log
\* for a failed operation on `subject`; empty after a success.
InfoLog(success, subject) ==
    IF success THEN << >> ELSE <<"error", subject>>

\* glCreateShader + glShaderSource + glCompileShader: the new unit object
glShaderObject(type, source, status) ==
    [type |-> type, source |-> source, compiled |-> status,
     info_log |-> InfoLog(status, source)]

\* the value a uniform of each type holds right after a successful link
InitialValue(type) ==
    CASE type = "mat4" -> ZeroMat
      [] type = "vec4" -> <<0, 0, 0, 0>>
      [] OTHER -> 0

\* glLinkProgram: the link succeeds iff every attached unit compiled, each
\* stage has a (non-empty) unit, and every varying the fragment unit reads
\* is written by the vertex unit.
glLinkStatus(vsUnit, fsUnit) ==
    /\ vsUnit.compiled /\ fsUnit.compiled
    /\ vsUnit.source # "" /\ fsUnit.source # ""
    /\ SourceText(fsUnit.source).varyings \subseteq SourceText(vsUnit.source).varyings

\* the active uniforms of a linked program: the vertex unit's, then the
\* fragment unit's, at locations 0, 1, 2, ... (index - 1), all zero
ActiveUniforms(vsUnit, fsUnit) ==
    LET decls == SourceText(vsUnit.source).uniforms \o SourceText(fsUnit.source).uniforms
    IN  [i \in 1..Len(decls) |->
            [name |-> decls[i].name, type |-> decls[i].type,
             value |-> InitialValue(decls[i].type)]]

\* glCreateProgram + glAttachShader x2 + glLinkProgram: the new program object
glProgramObject(vs, fs) ==
    LET ok == glLinkStatus(shaders[vs], shaders[fs])
    IN  [attached |-> {vs, fs},
         linked |-> ok,
         info_log |-> InfoLog(ok, <<shaders[vs].source, shaders[fs].source>>),
         uniforms |-> IF ok THEN ActiveUniforms(shaders[vs], shaders[fs]) ELSE << >>]

\* glGetUniformLocation(program, name): the location of an active uniform,
\* -1 when the name is no active uniform of the program (or the program is
\* not a successfully linked program object).
glGetUniformLocation(program, name) ==
    IF program \notin DOMAIN programs \/ ~programs[program].linked
    THEN -1
    ELSE LET us == programs[program].uniforms
             hits == {i \in 1..Len(us) : us[i].name = name}
         IN  IF hits = {} THEN -1 ELSE (CHOOSE i \in hits : TRUE) - 1

\* the uniform types each glUniform* command may write
UniformAccepts(command) ==
    CASE command = "1i" -> {"int", "bool"}
      [] command = "1f" -> {"float", "bool"}
      [] command = "4f" -> {"vec4"}
      [] command = "Matrix4fv" -> {"mat4"}

\* what a uniform of `type` holds after `value` is written to it
Stored(type, value) ==
    IF type = "bool" THEN (IF value = 0 THEN 0 ELSE 1) ELSE value

\* glUniform*(location, value): writes into the CURRENT program's storage.
\* Location -1 is silently ignored; with no current program, a location the
\* current program does not have, or a uniform of another type, the call
\* fails with GL_INVALID_OPERATION and writes nothing.
glUniform(command, location, value) ==
    IF \/ current = NoProgram
       \/ location = -1
       \/ current \notin DOMAIN programs
    THEN programs
    ELSE LET us == programs[current].uniforms
             i == location + 1
         IN  IF i \in 1..Len(us) /\ us[i].type \in UniformAccepts(command)
             THEN [programs EXCEPT ![current].uniforms[i].value = Stored(us[i].type, value)]
             ELSE programs

glUniform1i(location, v0) == glUniform("1i", location, v0)
glUniform1f(location, v0) == glUniform("1f", location, v0)
glUniform4f(location, v0, v1, v2, v3) == glUniform("4f", location, <<v0, v1, v2, v3>>)

\* glm::value_ptr: the 16 components in memory order, column after column
value_ptr(m) == m[1] \o m[2] \o m[3] \o m[4]

\* the matrix glUniformMatrix4fv stores from 16 components: taken as
\* columns when transpose is GL_FALSE, as rows when it is GL_TRUE
MatrixFrom(transpose, ptr) ==
    [c \in 1..4 |-> [r \in 1..4 |->
        IF transpose THEN ptr[4 * (r - 1) + c] ELSE ptr[4 * (c - 1) + r]]]

glUniformMatrix4fv(location, transpose, ptr) ==
    glUniform("Matrix4fv", location, MatrixFrom(transpose, ptr))

\* faulty variant: any program object is made current, linked or not
glUseProgram_unchecked(program) ==
    IF program \in DOMAIN programs THEN program ELSE NoProgram

\* glUseProgram(program): 0 empties the slot; a successfully linked program
\* becomes current; for a program that was not linked successfully the call
\* fails with GL_INVALID_OPERATION and the slot keeps what it held.
glUseProgram(program) ==
    IF program = NoProgram THEN NoProgram
    ELSE IF program \in DOMAIN programs /\ programs[program].linked THEN program
    ELSE current

----------------------------------------------------------------------------
(* class shader: the private helpers and the constructor.                  *)

NoCtor == [self |-> "none", step |-> "none", vs_path |-> "", fs_path |-> "",
           vs_source |-> "", fs_source |-> "", vs |-> 0, fs |-> 0]

\* std::ifstream f{path}; ss << f.rdbuf(); ss.str(): the text of the file.
\* A file that cannot be opened inserts nothing, so the text is empty.
ReadFile(path) ==
    IF files[path] = Unreadable THEN "" ELSE files[path]

\* faulty variant: the diagnostic is tagged as a vertex-stage one for either stage
CompileDiagnostic_VertexTagOnly(type, shader_log) ==
    [tag |-> "Vertex Shader", text |-> shader_log]

\* spdlog::error("[Vertex Shader] ..." / "[Fragment Shader] ...", shader_log)
CompileDiagnostic(type, shader_log) ==
    [tag |-> IF type = "vertex" THEN "Vertex Shader" ELSE "Fragment Shader",
     text |-> shader_log]

\* spdlog::error("[Shader Linking] ...", program_log)
LinkDiagnostic(program_log) ==
    [tag |-> "Shader Linking", text |-> program_log]

\* std::unique_ptr<char> log{ new char[n] } going out of scope: the array is
\* released with the scalar delete, which is undefined behaviour. A build
\* either frees the buffer and goes on, or its allocator detects the
\* mismatch and aborts the process.
LogBufferRelease == {"freed", "abort"}

\* shader::create_shader(type, source), given the compile status the driver
\* reports: the handle returned, the unit objects and the log sink after it
create_shader(type, source, status) ==
    LET shader == nextName
        unit == glShaderObject(type, source, status)
        success == unit.compiled
    IN  [ret |-> shader,
         shaders |-> shaders @@ (shader :> unit),
         log |-> IF ~success
                 THEN Append(log, CompileDiagnostic(type, unit.info_log))
                 ELSE log]

\* faulty variant: a failed link is not reported
create_program_silent(vs, fs) ==
    LET handle == nextName
        program == glProgramObject(vs, fs)
    IN  [ret |-> handle,
         programs |-> programs @@ (handle :> program),
         shaders |-> shaders,
         log |-> log]

\* faulty variant: the link step is run twice, leaving a second program object
create_program_links_twice(vs, fs) ==
    LET handle == nextName
        program == glProgramObject(vs, fs)
        success == program.linked
    IN  [ret |-> handle,
         programs |-> programs @@ (handle :> program) @@ (handle + 100 :> program),
         shaders |-> shaders,
         log |-> IF ~success
                 THEN Append(log, [tag |-> "Shader Linking", text |-> program.info_log])
                 ELSE log]

\* shader::create_program(vs, fs): the handle returned, the program objects,
\* the unit objects (no unit is detached or deleted) and the log sink after it
create_program(vs, fs) ==
    LET handle == nextName
        program == glProgramObject(vs, fs)
        success == program.linked
    IN  [ret |-> handle,
         programs |-> programs @@ (handle :> program),
         shaders |-> shaders,
         log |-> IF ~success
                 THEN Append(log, LinkDiagnostic(program.info_log))
                 ELSE log]

Running == proc = "running"
Idle == Running /\ ctor.step = "none"

\* shader::shader(vs_path, fs_path), up to the first create_shader call:
\* m_id{0}, both files read into vs_source and fs_source
ShaderCtorBegin(self, vs_path, fs_path) ==
    /\ Idle
    /\ obj[self].state = "unborn"
    /\ obj' = [obj EXCEPT ![self] = [state |-> "constructing", m_id |-> 0]]
    /\ ctor' = [self |-> self, step |-> "create_vs",
                vs_path |-> vs_path, fs_path |-> fs_path,
                vs_source |-> ReadFile(vs_path),
                fs_source |-> ReadFile(fs_path),
                vs |-> 0, fs |-> 0]
    /\ last' = [op |-> "shader", self |-> self, id |-> "none", value |-> 0]
    /\ UNCHANGED <<locals, sdl, demo, vertex_spec, block, cursor, files, glvars, log, proc, mainvars>>

\* unsigned int vs = this->create_shader(shader_type::vertex, vs_source.c_str())
ShaderCtorVertex ==
    /\ Running
    /\ ctor.step = "create_vs"
    /\ \E status \in glCompileStatuses("vertex", ctor.vs_source) :
       \E release \in (IF status THEN {"freed"} ELSE LogBufferRelease) :
          LET r == create_shader("vertex", ctor.vs_source, status)
          IN  /\ shaders' = r.shaders
              /\ nextName' = nextName + 1
              /\ log' = r.log
              /\ IF release = "abort"
                 THEN proc' = "aborted" /\ UNCHANGED ctor
                 ELSE /\ ctor' = [ctor EXCEPT !.vs = r.ret, !.step = "create_fs"]
                      /\ UNCHANGED proc
    /\ UNCHANGED <<locals, sdl, demo, vertex_spec, block, cursor, files, programs, current, obj, mainvars, last>>

\* unsigned int fs = this->create_shader(shader_type::fragment, fs_source.c_str())
ShaderCtorFragment ==
    /\ Running
    /\ ctor.step = "create_fs"
    /\ \E status \in glCompileStatuses("fragment", ctor.fs_source) :
       \E release \in (IF status THEN {"freed"} ELSE LogBufferRelease) :
          LET r == create_shader("fragment", ctor.fs_source, status)
          IN  /\ shaders' = r.shaders
              /\ nextName' = nextName + 1
              /\ log' = r.log
              /\ IF release = "abort"
                 THEN proc' = "aborted" /\ UNCHANGED ctor
                 ELSE /\ ctor' = [ctor EXCEPT !.fs = r.ret, !.step = "create_program"]
                      /\ UNCHANGED proc
    /\ UNCHANGED <<locals, sdl, demo, vertex_spec, block, cursor, files, programs, current, obj, mainvars, last>>

\* m_id = this->create_program(vs, fs); the constructor returns
ShaderCtorLink ==
    /\ Running
    /\ ctor.step = "create_program"
    /\ LET r == create_program(ctor.vs, ctor.fs)
       IN  \E release \in (IF r.programs[r.ret].linked THEN {"freed"} ELSE LogBufferRelease) :
             /\ programs' = r.programs
             /\ shaders' = r.shaders
             /\ nextName' = nextName + 1
             /\ log' = r.log
             /\ IF release = "abort"
                THEN proc' = "aborted" /\ UNCHANGED <<ctor, obj>>
                ELSE /\ obj' = [obj EXCEPT ![ctor.self] = [state |-> "alive", m_id |-> r.ret]]
                     /\ ctor' = NoCtor
                     /\ UNCHANGED proc
    /\ UNCHANGED <<locals, sdl, demo, vertex_spec, block, cursor, files, current, mainvars, last>>

----------------------------------------------------------------------------
(* class shader: the public member functions.                              *)

\* faulty variant: the program is bound only when no program is current
use_when_unbound(self) ==
    IF current = NoProgram THEN glUseProgram(obj[self].m_id) ELSE current

\* faulty variant: a resource that is already current is unbound instead
use_toggles(self) ==
    IF current = obj[self].m_id THEN NoProgram ELSE glUseProgram(obj[self].m_id)

\* shader::use(): glUseProgram(m_id); the current-program slot after it
use(self) == glUseProgram(obj[self].m_id)

\* faulty variant: the current-program slot is left as it is
unbind_leaves_bound == current

\* shader::unbind(): glUseProgram(0)
unbind == glUseProgram(0)

\* shader::set_bool(id, value): glUniform1i(location, static_cast<int>(value))
set_bool(self, id, value) ==
    glUniform1i(glGetUniformLocation(obj[self].m_id, id), IF value THEN 1 ELSE 0)

\* faulty variant: the looked-up location is used by magnitude, so that the -1 of a
\* missing name addresses location 1
set_int_abs_location(self, id, value) ==
    LET location == glGetUniformLocation(obj[self].m_id, id)
    IN  glUniform1i(IF location < 0 THEN -location ELSE location, value)

\* shader::set_int(id, value)
set_int(self, id, value) ==
    glUniform1i(glGetUniformLocation(obj[self].m_id, id), value)

\* shader::set_float(id, value)
set_float(self, id, value) ==
    glUniform1f(glGetUniformLocation(obj[self].m_id, id), value)

\* shader::set_vec4(id, value)
set_vec4(self, id, value) ==
    glUniform4f(glGetUniformLocation(obj[self].m_id, id),
                value[1], value[2], value[3], value[4])

\* faulty variant: the matrix is uploaded with transpose set to GL_TRUE
set_mat4_transposed(self, id, value) ==
    glUniformMatrix4fv(glGetUniformLocation(obj[self].m_id, id), TRUE, value_ptr(value))

\* shader::set_mat4(id, value): transpose is GL_FALSE
set_mat4(self, id, value) ==
    glUniformMatrix4fv(glGetUniformLocation(obj[self].m_id, id), FALSE, value_ptr(value))

Alive(self) == Idle /\ obj[self].state = "alive"

Use(self) ==
    /\ Alive(self)
    /\ current' = use(self)
    /\ last' = [op |-> "use", self |-> self, id |-> "none", value |-> 0]
    /\ UNCHANGED <<locals, sdl, demo, vertex_spec, block, cursor, files, nextName, shaders, programs, log, obj, ctor, proc, mainvars>>

Unbind ==
    /\ Idle
    /\ current' = unbind
    /\ last' = [op |-> "unbind", self |-> "none", id |-> "none", value |-> 0]
    /\ UNCHANGED <<locals, sdl, demo, vertex_spec, block, cursor, files, nextName, shaders, programs, log, obj, ctor, proc, mainvars>>

UniformCallFrame ==
    UNCHANGED <<locals, sdl, demo, vertex_spec, block, cursor, files, nextName, shaders, current, log, obj, ctor, proc, mainvars>>

SetBool(self, id, value) ==
    /\ Alive(self)
    /\ programs' = set_bool(self, id, value)
    /\ last' = [op |-> "set_bool", self |-> self, id |-> id, value |-> value]
    /\ UniformCallFrame

SetInt(self, id, value) ==
    /\ Alive(self)
    /\ programs' = set_int(self, id, value)
    /\ last' = [op |-> "set_int", self |-> self, id |-> id, value |-> value]
    /\ UniformCallFrame

SetFloat(self, id, value) ==
    /\ Alive(self)
    /\ programs' = set_float(self, id, value)
    /\ last' = [op |-> "set_float", self |-> self, id |-> id, value |-> value]
    /\ UniformCallFrame

SetVec4(self, id, value) ==
    /\ Alive(self)
    /\ programs' = set_vec4(self, id, value)
    /\ last' = [op |-> "set_vec4", self |-> self, id |-> id, value |-> value]
    /\ UniformCallFrame

SetMat4(self, id, value) ==
    /\ Alive(self)
    /\ programs' = set_mat4(self, id, value)
    /\ last' = [op |-> "set_mat4", self |-> self, id |-> id, value |-> value]
    /\ UniformCallFrame

----------------------------------------------------------------------------
(* class shader: the defaulted special member functions.                   *)

\* shader(shader const&) = default, shader(shader&&) = default and the two
\* defaulted operator= : memberwise on the one member, an unsigned int, for
\* which a move is a copy; the m_id the target object holds afterwards
memberwise(other) == obj[other].m_id

\* faulty variant: the destructor deletes the program object it holds
shader_dtor_deletes(self) ==
    [p \in DOMAIN programs \ {obj[self].m_id} |-> programs[p]]

\* ~shader() = default: no GL call; the program objects after it
shader_dtor(self) == programs

SpecialMemberFrame ==
    UNCHANGED <<locals, sdl, demo, vertex_spec, block, cursor, files, nextName, shaders, programs, current, log, ctor, proc, mainvars>>

\* shader self{ other }
CopyConstruct(self, other) ==
    /\ Alive(other)
    /\ obj[self].state = "unborn"
    /\ obj' = [obj EXCEPT ![self] = [state |-> "alive", m_id |-> memberwise(other)]]
    /\ last' = [op |-> "shader(shader const&)", self |-> self, id |-> other, value |-> 0]
    /\ SpecialMemberFrame

\* shader self{ std::move(other) }: other stays alive, with its m_id
MoveConstruct(self, other) ==
    /\ Alive(other)
    /\ obj[self].state = "unborn"
    /\ obj' = [obj EXCEPT ![self] = [state |-> "alive", m_id |-> memberwise(other)]]
    /\ last' = [op |-> "shader(shader&&)", self |-> self, id |-> other, value |-> 0]
    /\ SpecialMemberFrame

\* self = other
CopyAssign(self, other) ==
    /\ Alive(other) /\ Alive(self)
    /\ obj' = [obj EXCEPT ![self].m_id = memberwise(other)]
    /\ last' = [op |-> "operator=(shader const&)", self |-> self, id |-> other, value |-> 0]
    /\ SpecialMemberFrame

\* self = std::move(other)
MoveAssign(self, other) ==
    /\ Alive(other) /\ Alive(self)
    /\ obj' = [obj EXCEPT ![self].m_id = memberwise(other)]
    /\ last' = [op |-> "operator=(shader&&)", self |-> self, id |-> other, value |-> 0]
    /\ SpecialMemberFrame

\* the object's lifetime ends
Destroy(self) ==
    /\ Alive(self)
    /\ programs' = shader_dtor(self)
    /\ obj' = [obj EXCEPT ![self].state = "destroyed"]
    /\ last' = [op |-> "~shader", self |-> self, id |-> "none", value |-> 0]
    /\ UNCHANGED <<locals, sdl, demo, vertex_spec, block, cursor, files, nextName, shaders, current, log, ctor, proc, mainvars>>

----------------------------------------------------------------------------
(* A client of the class: constructs the resources from any of the files   *)
(* and calls the public member functions in any order.                     *)

\* the vertex files the client constructs from ("shader.vs" is the demo's)
ClientVsPaths == VsPaths \ {"shader.vs"}

\* The client constructs "r1" first and "r2" after it, binds either, and
\* sets uniforms through "r1"; "r2" is the other program of the context.
Writers == {"r1"}
ClientConstructs(self) == self = "r2" => obj["r1"].state = "alive"

Init ==
    /\ files = DefaultFiles
    /\ nextName = 1
    /\ shaders = << >>
    /\ programs = << >>
    /\ current = NoProgram
    /\ log = << >>
    /\ obj = [r \in Resources |-> [state |-> "unborn", m_id |-> 0]]
    /\ ctor = NoCtor
    /\ proc = "running"
    /\ pc = "client"
    /\ window_should_close = FALSE
    /\ vertex_array = 0
    /\ last = NoCall
    /\ demo = "none"
    /\ vertex_spec = NoVertexSpec
    /\ block = NoBlock
    /\ cursor = 0
    /\ locals = NoLocals
    /\ sdl = [NoSdl EXCEPT !.gl_context = TRUE]

Next ==
    \/ \E self \in Resources, vs_path \in ClientVsPaths, fs_path \in FsPaths :
          ClientConstructs(self) /\ ShaderCtorBegin(self, vs_path, fs_path)
    \/ ShaderCtorVertex
    \/ ShaderCtorFragment
    \/ ShaderCtorLink
    \/ \E self \in Resources : Use(self)
    \/ Unbind
    \/ \E self \in Writers, id \in BoolNames, value \in BOOLEAN : SetBool(self, id, value)
    \/ \E self \in Writers, id \in IntNames, value \in Scalars : SetInt(self, id, value)
    \/ \E self \in Writers, id \in FloatNames, value \in Scalars : SetFloat(self, id, value)
    \/ \E self \in Writers, id \in Vec4Names, value \in Vec4s : SetVec4(self, id, value)
    \/ \E self \in Writers, id \in Mat4Names, value \in Mats : SetMat4(self, id, value)

Spec == Init /\ [][Next]_vars

----------------------------------------------------------------------------
(* A client that treats shader objects as values: it constructs them from  *)
(* files or from one another, assigns them to one another, binds them and   *)
(* lets them go out of scope, in any order.                                 *)

ValueVsPaths == {"shader.vs.glsl", "broken.vs"}
ValueFsPaths == {"shader.fs.glsl", "unlinkable.fs"}

ValueNext ==
    \/ \E self \in Resources, vs_path \in ValueVsPaths, fs_path \in ValueFsPaths :
          ShaderCtorBegin(self, vs_path, fs_path)
    \/ ShaderCtorVertex
    \/ ShaderCtorFragment
    \/ ShaderCtorLink
    \/ \E self \in Resources : \E other \in Resources \ {self} : CopyConstruct(self, other)
    \/ \E self \in Resources : \E other \in Resources \ {self} : MoveConstruct(self, other)
    \/ \E self \in Resources : \E other \in Resources \ {self} : CopyAssign(self, other)
    \/ \E self \in Resources : \E other \in Resources \ {self} : MoveAssign(self, other)
    \/ \E self \in Resources : Destroy(self)
    \/ \E self \in Resources : Use(self)
    \/ Unbind

ValueSpec == Init /\ [][ValueNext]_vars

----------------------------------------------------------------------------
(* The demo programs: what differs from one main to the other.             *)

Demos == {"HelloTriangle", "Shaders", "ShadersLib", "Textures", "Transformations",
          "DVD_ScreenSaver", "FreeCameraMovement"}

sizeof_GLfloat == 4

\* vertices.size(): the number of floats in the demo's vertex list
vertices_size(d) ==
    CASE d = "HelloTriangle" -> 12
      [] d = "Shaders" -> 18
      [] d = "ShadersLib" -> 18
      [] d = "Textures" -> 32
      [] d = "Transformations" -> 32
      [] d = "DVD_ScreenSaver" -> 20
      [] d = "FreeCameraMovement" -> 180

\* std::iota(indices.begin(), indices.end(), 0) on num_verts elements
iota(num_verts) == [j \in 1..num_verts |-> j - 1]

\* the demo's index list
indices(d) ==
    CASE d \in {"Shaders", "ShadersLib"} -> <<0, 1, 2>>
      [] d = "FreeCameraMovement" -> iota(36)
      [] OTHER -> <<0, 1, 3, 1, 2, 3>>

\* the demo's glVertexAttribPointer(index, size, GL_FLOAT, GL_FALSE, stride,
\* pointer) calls, each followed by glEnableVertexAttribArray(index)
AttribPointers(d) ==
    CASE d = "HelloTriangle" ->
           << [index |-> 0, size |-> 3, stride |-> 3 * sizeof_GLfloat, pointer |-> 0] >>
      [] d \in {"Shaders", "ShadersLib"} ->
           << [index |-> 0, size |-> 3, stride |-> 6 * sizeof_GLfloat, pointer |-> 0],
              [index |-> 1, size |-> 3, stride |-> 6 * sizeof_GLfloat,
               pointer |-> 3 * sizeof_GLfloat] >>
      [] d \in {"Textures", "Transformations"} ->
           << [index |-> 0, size |-> 3, stride |-> 8 * sizeof_GLfloat, pointer |-> 0],
              [index |-> 1, size |-> 3, stride |-> 8 * sizeof_GLfloat,
               pointer |-> 3 * sizeof_GLfloat],
              [index |-> 2, size |-> 2, stride |-> 8 * sizeof_GLfloat,
               pointer |-> 6 * sizeof_GLfloat] >>
      [] d \in {"DVD_ScreenSaver", "FreeCameraMovement"} ->
           << [index |-> 0, size |-> 3, stride |-> 5 * sizeof_GLfloat, pointer |-> 0],
              [index |-> 1, size |-> 2, stride |-> 5 * sizeof_GLfloat,
               pointer |-> 3 * sizeof_GLfloat] >>

\* the demos that hold their shader sources in string literals and compile
\* them with the free functions create_shader and create_program
InlineSources == {"HelloTriangle", "Shaders"}

\* the paths the demo gives the shader constructor
ShaderPaths(d) ==
    IF d \in {"ShadersLib", "Textures"}
    THEN [vs |-> "shader.vs", fs |-> "shader.fs"]
    ELSE [vs |-> "shader.vs.glsl", fs |-> "shader.fs.glsl"]

\* the source texts written for the demo
ShaderTexts(d) ==
    CASE d = "HelloTriangle" -> [vs |-> "vs_pos", fs |-> "fs_orange"]
      [] d = "Shaders" -> [vs |-> "vs_color", fs |-> "fs_color"]
      [] d = "ShadersLib" -> [vs |-> "vs_plain", fs |-> "fs_ourcolor"]
      [] d = "Textures" -> [vs |-> "vs_plain", fs |-> "fs_plain"]
      [] d = "Transformations" -> [vs |-> "vs_transform", fs |-> "fs_two_textures"]
      [] d = "DVD_ScreenSaver" ->
           [vs |-> "DVD_ScreenSaver/shader.vs.glsl", fs |-> "fs_objcolor"]
      [] d = "FreeCameraMovement" ->
           [vs |-> "FreeCameraMovement/shader.vs.glsl", fs |-> "fs_two_textures"]

\* the demos whose vertex source, and whose two sources, are in the repository
VertexSourcePresent == {"HelloTriangle", "Shaders", "Transformations"}
SourcesPresent == {"HelloTriangle", "Shaders"}

\* the number of stbi_load calls of the demo
ImageLoads(d) ==
    CASE d \in {"Textures", "DVD_ScreenSaver"} -> 1
      [] d \in {"Transformations", "FreeCameraMovement"} -> 2
      [] OTHER -> 0

\* the demo's locals as their declarations initialise them. The DVD demo's
\* velocity is in hundredths per second and its offset in units of 10^-5, so
\* that velocity * milliseconds is the offset's increment (the rounding of
\* float is not modelled); the camera demo's fov is in degrees, its
\* orientation in thousandths of a radian
Locals(d) ==
    CASE d = "DVD_ScreenSaver" -> [NoLocals EXCEPT !.translate_x = 50, !.translate_y = 25]
      [] d = "FreeCameraMovement" ->
           [NoLocals EXCEPT !.fov = 45, !.window_width = 1280, !.window_height = 720,
                            !.last_mouse_x = 1280 \div 2, !.last_mouse_y = 720 \div 2]
      [] OTHER -> NoLocals

\* constexpr float max = 255.0F: a colour component is a count of 1/max
color_max == 255

\* std::uniform_int_distribution<int> dist{ 10, 245 }, and the draws explored
dist == 10 .. 245
DistSample == {10, 245}

\* the values get_random_color can return: three draws of dist over max, alpha 1
Colors == { <<r, g, b, color_max>> : r \in DistSample, g \in DistSample, b \in DistSample }

\* glm::vec4{ 1.0F, 1.0F, 1.0F, 1.0F }
White == <<color_max, color_max, color_max, color_max>>

\* the milliseconds a frame of the DVD demo can have taken
FrameDurations == {0, 1040}

\* the offsets beyond +-MaxOffset are not explored
MaxOffset == 104000

\* the offset's bound on each axis, in units of 10^-5
OffsetBound(axis) == IF axis = "x" THEN 78000 ELSE 80000

\* faulty variant: only the upper side of the bound is tested
out_of_bound_upper_only(acc, bound) == acc > bound

\* translate_x_acc > 0.78F || translate_x_acc < -0.78F
out_of_bound(acc, bound) == acc > bound \/ acc < -bound

\* the condition of the if on `axis` in the locals l
Outside(l, axis) ==
    IF axis = "x"
    THEN out_of_bound(l.translate_x_acc, OffsetBound("x"))
    ELSE out_of_bound(l.translate_y_acc, OffsetBound("y"))

\* translate_x = -translate_x, or translate_y = -translate_y
Bounce(l, axis) ==
    IF axis = "x"
    THEN [l EXCEPT !.translate_x = -l.translate_x]
    ELSE [l EXCEPT !.translate_y = -l.translate_y]

\* translate_x_acc += translate_x * duration_sec, and the same on y
Advance(l, ms) ==
    [l EXCEPT !.translate_x_acc = l.translate_x_acc + l.translate_x * ms,
              !.translate_y_acc = l.translate_y_acc + l.translate_y * ms]

\* faulty variant: the upper limit is not enforced
clamp_fov_lower_only(fov) == IF fov < 1 THEN 1 ELSE fov

\* if(fov < 1.0F) fov = 1.0F; if(fov > 45.0F) fov = 45.0F
clamp_fov(fov) ==
    LET raised == IF fov < 1 THEN 1 ELSE fov
    IN  IF raised > 45 THEN 45 ELSE raised

\* glm::perspective(glm::radians(fovy), width / height, near, far) with near
\* 0.1 and far 100. The cotangent of half the angle is kept symbolic: it is
\* stood for by fovy, which it is a one-to-one function of on 1..45; the
\* aspect ratio enters column 0 in ten-thousandths, the depth entries are in
\* thousandths
perspective(fovy, width, height) ==
    << <<fovy * ((height * 10000) \div width), 0, 0, 0>>, <<0, fovy, 0, 0>>,
       <<0, 0, -1002, -1>>, <<0, 0, -200, 0>> >>

\* the wheel amounts, window sizes and mouse positions the events can carry
MaxWheel == 50
WheelAmounts == {-MaxWheel, -22, 0, 22, MaxWheel}
WindowSizes == { <<1280, 720>>, <<800, 600>> }
MousePositions == { <<640, 360>>, <<650, 350>> }

\* the camera's yaw and pitch beyond +-MaxTurn are not explored
MaxTurn == 10

GreenColors == { <<0, green_value, 0, 1>> : green_value \in Scalars }

\* the uniform writes between use() and unbind() before the loop is entered,
\* main's locals being l
InitUniforms(d, l) ==
    CASE d = "DVD_ScreenSaver" ->
           << [op |-> "set_int", id |-> "texture_sample", values |-> {0}, optional |-> FALSE],
              [op |-> "set_vec4", id |-> "objColor", values |-> {White}, optional |-> FALSE] >>
      [] d = "Transformations" ->
           << [op |-> "set_int", id |-> "texture1", values |-> {0}, optional |-> FALSE],
              [op |-> "set_int", id |-> "texture2", values |-> {1}, optional |-> FALSE] >>
      [] d = "FreeCameraMovement" ->
           << [op |-> "set_int", id |-> "texture1", values |-> {0}, optional |-> FALSE],
              [op |-> "set_int", id |-> "texture2", values |-> {1}, optional |-> FALSE],
              [op |-> "set_mat4", id |-> "projection",
               values |-> {perspective(l.fov, l.window_width, l.window_height)},
               optional |-> FALSE] >>
      [] OTHER -> << >>

\* the uniform writes of a frame between use() and glBindVertexArray(vao);
\* an optional write sits under the if on its axis, after the negation of
\* the velocity on that axis
FrameUniforms(d) ==
    CASE d = "Shaders" ->
           << [op |-> "glUniform4f", id |-> "ourColor", values |-> GreenColors,
               optional |-> FALSE] >>
      [] d = "ShadersLib" ->
           << [op |-> "set_float", id |-> "ourColor", values |-> Scalars, optional |-> FALSE] >>
      [] d = "Transformations" ->
           << [op |-> "set_mat4", id |-> "transform", values |-> Mats, optional |-> FALSE] >>
      [] d = "DVD_ScreenSaver" ->
           << [op |-> "set_vec4", id |-> "objColor", values |-> Colors, optional |-> TRUE,
               axis |-> "x"],
              [op |-> "set_vec4", id |-> "objColor", values |-> Colors, optional |-> TRUE,
               axis |-> "y"],
              [op |-> "set_mat4", id |-> "transform", values |-> {Translation},
               optional |-> FALSE] >>
      [] d = "FreeCameraMovement" ->
           << [op |-> "set_mat4", id |-> "view", values |-> {Translation},
               optional |-> FALSE] >>
      [] OTHER -> << >>

\* the uniform writes that precede each glDrawElements call of a frame
DrawUniforms(d) ==
    IF d = "FreeCameraMovement"
    THEN << [op |-> "set_mat4", id |-> "model", values |-> {Translation}, optional |-> FALSE] >>
    ELSE << >>

\* the number of glDrawElements calls of a frame (positions.size())
Draws(d) == IF d = "FreeCameraMovement" THEN 10 ELSE 1

\* main's locals after the switch on the event e
HandleEventLocals(d, e, l) ==
    IF d # "FreeCameraMovement"
    THEN l
    ELSE CASE e.type = "SDL_WINDOWEVENT" /\ e.sym = "SDL_WINDOWEVENT_SIZE_CHANGED" ->
                [l EXCEPT !.window_width = e.x, !.window_height = e.y]
           [] e.type = "SDL_MOUSEBUTTONDOWN" /\ e.sym = "SDL_BUTTON_LEFT" ->
                [l EXCEPT !.dragging = TRUE, !.last_mouse_x = e.x, !.last_mouse_y = e.y]
           [] e.type = "SDL_MOUSEBUTTONUP" /\ e.sym = "SDL_BUTTON_LEFT" ->
                [l EXCEPT !.dragging = FALSE]
           [] e.type = "SDL_MOUSEWHEEL" /\ e.y # 0 ->
                [l EXCEPT !.fov = clamp_fov(l.fov - e.y)]
           [] OTHER -> l

\* faulty variant: the wheel handler computes the aspect ratio from the
\* size the window was created with
EventUniforms_initial_size(d, e, l) ==
    IF d # "FreeCameraMovement"
    THEN << >>
    ELSE CASE e.type = "SDL_WINDOWEVENT" /\ e.sym = "SDL_WINDOWEVENT_SIZE_CHANGED" ->
                << [op |-> "set_mat4", id |-> "projection",
                    values |-> {perspective(l.fov, e.x, e.y)}, optional |-> FALSE] >>
           [] e.type = "SDL_MOUSEWHEEL" /\ e.y # 0 ->
                << [op |-> "set_mat4", id |-> "projection",
                    values |-> {perspective(l.fov, Locals(d).window_width,
                                            Locals(d).window_height)},
                    optional |-> FALSE] >>
           [] OTHER -> << >>

\* the uniform writes the handler of the event e makes between use() and
\* unbind(), l being main's locals after the handler's assignments
EventUniforms(d, e, l) ==
    IF d # "FreeCameraMovement"
    THEN << >>
    ELSE CASE e.type = "SDL_WINDOWEVENT" /\ e.sym = "SDL_WINDOWEVENT_SIZE_CHANGED" ->
                << [op |-> "set_mat4", id |-> "projection",
                    values |-> {perspective(l.fov, e.x, e.y)}, optional |-> FALSE] >>
           [] e.type = "SDL_MOUSEWHEEL" /\ e.y # 0 ->
                << [op |-> "set_mat4", id |-> "projection",
                    values |-> {perspective(l.fov, l.window_width, l.window_height)},
                    optional |-> FALSE] >>
           [] OTHER -> << >>

\* faulty variant: the camera follows the mouse whether a drag is on or not
Drag_without_flag(l, mouse) ==
    [l EXCEPT !.last_mouse_x = mouse[1], !.last_mouse_y = mouse[2],
              !.cam = [yaw |-> l.cam.yaw - (mouse[1] - l.last_mouse_x),
                       pitch |-> l.cam.pitch + (l.last_mouse_y - mouse[2])]]

\* if(dragging): the mouse is sampled at `mouse`, the camera is yawed by
\* -(mouse_x - last_mouse_x) and pitched by last_mouse_y - mouse_y, each times
\* the sensitivity, and the sample becomes the reference position
Drag(l, mouse) ==
    IF l.dragging
    THEN [l EXCEPT !.last_mouse_x = mouse[1], !.last_mouse_y = mouse[2],
                   !.cam = [yaw |-> l.cam.yaw - (mouse[1] - l.last_mouse_x),
                            pitch |-> l.cam.pitch + (l.last_mouse_y - mouse[2])]]
    ELSE l

\* main's locals after the statements between the event loop and glClear, the
\* frame having taken ms milliseconds and the mouse being at `mouse`
FrameLocals(d, l, ms, mouse) ==
    CASE d = "DVD_ScreenSaver" -> Advance(l, ms)
      [] d = "FreeCameraMovement" -> Drag(l, mouse)
      [] OTHER -> l

\* the part of the state space that is explored
Explored(l) ==
    /\ l.translate_x_acc \in -MaxOffset .. MaxOffset
    /\ l.translate_y_acc \in -MaxOffset .. MaxOffset
    /\ l.cam.yaw \in -MaxTurn .. MaxTurn
    /\ l.cam.pitch \in -MaxTurn .. MaxTurn

\* the demos that delete their vertex array and buffers before they return
DeletesBuffers == {"Textures", "Transformations", "DVD_ScreenSaver", "FreeCameraMovement"}

----------------------------------------------------------------------------
(* main of a demo.                                                         *)

\* the name glGenVertexArrays gives the demo's vertex array
vao == 1

\* the demo's shader_program object
shader_program == "r1"

\* the events SDL_PollEvent can deliver
\* (x, y: data1 and data2 of a window event, the position of a button
\* event, the amount of a wheel event in y)
Events ==
    { [type |-> "SDL_QUIT", sym |-> "none", x |-> 0, y |-> 0],
      [type |-> "SDL_KEYDOWN", sym |-> "SDLK_ESCAPE", x |-> 0, y |-> 0],
      [type |-> "SDL_KEYDOWN", sym |-> "SDLK_a", x |-> 0, y |-> 0],
      [type |-> "SDL_MOUSEMOTION", sym |-> "none", x |-> 0, y |-> 0] }
    \cup { [type |-> "SDL_WINDOWEVENT", sym |-> "SDL_WINDOWEVENT_SIZE_CHANGED",
            x |-> size[1], y |-> size[2]] : size \in WindowSizes }
    \cup { [type |-> "SDL_MOUSEWHEEL", sym |-> "none", x |-> 0, y |-> amount] :
            amount \in WheelAmounts }
    \cup { [type |-> type, sym |-> button, x |-> at[1], y |-> at[2]] :
            type \in {"SDL_MOUSEBUTTONDOWN", "SDL_MOUSEBUTTONUP"},
            button \in {"SDL_BUTTON_LEFT", "SDL_BUTTON_RIGHT"},
            at \in MousePositions }

\* the context set-up calls that can fail
InitCalls == {"SDL_Init", "SDL_CreateWindow", "SDL_CreateRenderer", "gladLoadGLLoader"}

At(label) == Running /\ pc = label /\ ctor.step = "none"

MainFrame == UNCHANGED <<locals, sdl, demo, vertex_spec, block, cursor, files, nextName, shaders, programs,
                         current, log, obj, ctor, proc, window_should_close, vertex_array, last>>

\* the order of main's set-up: HelloTriangle builds its program between
\* glBufferData and glVertexAttribPointer, the other demos construct the
\* shader after the attributes are declared
After(d, stage) ==
    IF d = "HelloTriangle"
    THEN CASE stage = "buffers" -> "shader"
           [] stage = "shader" -> "attribs"
           [] stage = "attribs" -> "index_buffer"
    ELSE CASE stage = "buffers" -> "attribs"
           [] stage = "attribs" -> "shader"
           [] stage = "shader" -> "index_buffer"

\* main has come to `label`, directly or by the return of the shader set-up
Reached(label) ==
    \/ At(label)
    \/ /\ At("shader")
       /\ obj[shader_program].state = "alive"
       /\ After(demo, "shader") = label

\* what the diagnostic of a failed context set-up call is tagged with
InitDiagnostic(failed) ==
    [tag |-> IF failed = "gladLoadGLLoader" THEN "glad" ELSE "SDL2", text |-> <<failed>>]

\* what main holds of SDL when the set-up call `failed` is the first to fail
\* ("none": all succeed): SDL_Init, SDL_CreateWindow, SDL_CreateRenderer and
\* SDL_GL_CreateContext come in this order, gladLoadGLLoader last
SdlAfter(failed) ==
    [lib |-> failed # "SDL_Init",
     window |-> failed \notin {"SDL_Init", "SDL_CreateWindow"},
     renderer |-> failed \notin {"SDL_Init", "SDL_CreateWindow", "SDL_CreateRenderer"},
     gl_context |-> failed \notin {"SDL_Init", "SDL_CreateWindow", "SDL_CreateRenderer"}]

\* SDL_Init .. gladLoadGLLoader: a failing call logs and calls std::exit(EXIT_FAILURE)
MainInitContext ==
    /\ At("init")
    /\ \E failed \in InitCalls \cup {"none"} :
          /\ sdl' = SdlAfter(failed)
          /\ IF failed = "none"
             THEN pc' = "buffers" /\ UNCHANGED <<proc, log>>
             ELSE /\ log' = Append(log, InitDiagnostic(failed))
                  /\ pc' = "end"
                  /\ proc' = "exit_failure"
    /\ UNCHANGED <<locals, demo, vertex_spec, block, cursor, files, glvars, obj, ctor,
                   window_should_close, vertex_array, last>>

\* the names glGenBuffers gives the demo's vertex buffer and index buffer
vbo == 1
ibo == 2

\* faulty variant: the element array binding is not recorded in the vertex array
glBindBuffer_array_only(spec, array, target, buffer) ==
    IF target = "GL_ARRAY_BUFFER" THEN [spec EXCEPT !.array_binding = buffer] ELSE spec

\* glBindBuffer(target, buffer), the vertex array `array` being bound:
\* GL_ARRAY_BUFFER is a slot of the context, GL_ELEMENT_ARRAY_BUFFER a slot
\* of the bound vertex array (without one the call is an error and binds
\* nothing)
glBindBuffer(spec, array, target, buffer) ==
    CASE target = "GL_ARRAY_BUFFER" -> [spec EXCEPT !.array_binding = buffer]
      [] target = "GL_ELEMENT_ARRAY_BUFFER" /\ array # 0 ->
           [spec EXCEPT !.element_binding = buffer]
      [] OTHER -> spec

\* glBufferData(GL_ARRAY_BUFFER, size, ...): the size in bytes of the buffer
\* bound to the target (with none bound the call is an error)
glBufferData(spec, size) ==
    IF spec.array_binding # 0 THEN [spec EXCEPT !.array_buffer = size] ELSE spec

\* glBufferData(GL_ELEMENT_ARRAY_BUFFER, ..., data, ...): the contents of the
\* buffer bound to the vertex array's element slot
glBufferDataElements(spec, data) ==
    IF spec.element_binding # 0 THEN [spec EXCEPT !.elements = data] ELSE spec

\* faulty variant: the pointer argument is dropped, every attribute starts at 0
glVertexAttribPointer_at_zero(spec, index, size, stride, pointer) ==
    [spec EXCEPT !.attribs =
        (index :> [size |-> size, stride |-> stride, pointer |-> 0, enabled |-> FALSE,
                   buffer |-> spec.array_binding])
            @@ spec.attribs]

\* glVertexAttribPointer(index, size, GL_FLOAT, GL_FALSE, stride, pointer):
\* the attribute reads from the buffer bound to GL_ARRAY_BUFFER at the call
glVertexAttribPointer(spec, index, size, stride, pointer) ==
    LET was == IF index \in DOMAIN spec.attribs THEN spec.attribs[index].enabled ELSE FALSE
        attrib == [size |-> size, stride |-> stride, pointer |-> pointer, enabled |-> was,
                   buffer |-> spec.array_binding]
    IN  [spec EXCEPT !.attribs = (index :> attrib) @@ spec.attribs]

\* faulty variant: only attribute 0 is ever enabled
glEnableVertexAttribArray_first_only(spec, index) ==
    IF index = 0 /\ index \in DOMAIN spec.attribs
    THEN [spec EXCEPT !.attribs[index].enabled = TRUE]
    ELSE spec

\* glEnableVertexAttribArray(index)
glEnableVertexAttribArray(spec, index) ==
    IF index \in DOMAIN spec.attribs
    THEN [spec EXCEPT !.attribs[index].enabled = TRUE]
    ELSE [spec EXCEPT !.attribs =
            (index :> [size |-> 4, stride |-> 0, pointer |-> 0, enabled |-> TRUE,
                       buffer |-> 0]) @@ spec.attribs]

\* the glVertexAttribPointer / glEnableVertexAttribArray pairs of main, in order
RECURSIVE DeclareAttribs(_, _)
DeclareAttribs(spec, calls) ==
    IF calls = << >>
    THEN spec
    ELSE LET c == Head(calls)
         IN  DeclareAttribs(
                 glEnableVertexAttribArray(
                     glVertexAttribPointer(spec, c.index, c.size, c.stride, c.pointer),
                     c.index),
                 Tail(calls))

\* glGenVertexArrays, glBindVertexArray(vao), glGenBuffers, glBindBuffer, glBufferData
MainBuffers ==
    /\ At("buffers")
    /\ vertex_array' = vao
    /\ vertex_spec' = glBufferData(glBindBuffer(vertex_spec, vao, "GL_ARRAY_BUFFER", vbo),
                                   vertices_size(demo) * sizeof_GLfloat)
    /\ pc' = After(demo, "buffers")
    /\ UNCHANGED <<locals, sdl, demo, block, cursor, files, glvars, log, obj, ctor, proc,
                   window_should_close, last>>

\* the vertex attributes are declared and enabled
MainAttribs ==
    /\ Reached("attribs")
    /\ vertex_spec' = DeclareAttribs(vertex_spec, AttribPointers(demo))
    /\ pc' = After(demo, "attribs")
    /\ UNCHANGED <<locals, sdl, demo, block, cursor, files, glvars, log, obj, ctor, proc,
                   window_should_close, vertex_array, last>>

\* shader shader_program{ vs_path, fs_path }: the constructor is entered; in
\* the demos with inline sources, create_shader is about to be called on
\* vertex_shader_source
MainShader ==
    /\ At("shader")
    /\ IF demo \in InlineSources
       THEN /\ obj[shader_program].state = "unborn"
            /\ obj' = [obj EXCEPT ![shader_program] = [state |-> "constructing", m_id |-> 0]]
            /\ ctor' = [NoCtor EXCEPT !.self = shader_program, !.step = "create_vs",
                                      !.vs_source = ShaderTexts(demo).vs,
                                      !.fs_source = ShaderTexts(demo).fs]
            /\ UNCHANGED <<locals, sdl, demo, vertex_spec, block, cursor, files, glvars, log, proc,
                           mainvars, last>>
       ELSE ShaderCtorBegin(shader_program, ShaderPaths(demo).vs, ShaderPaths(demo).fs)

\* glGenBuffers, glBindBuffer(GL_ELEMENT_ARRAY_BUFFER, ibo), glBufferData
MainIndexBuffer ==
    /\ Reached("index_buffer")
    /\ vertex_spec' =
          glBufferDataElements(
              glBindBuffer(vertex_spec, vertex_array, "GL_ELEMENT_ARRAY_BUFFER", ibo),
              indices(demo))
    /\ pc' = "textures"
    /\ UNCHANGED <<locals, sdl, demo, block, cursor, files, glvars, log, obj, ctor, proc,
                   window_should_close, vertex_array, last>>

\* what stbi_load's failure is logged as
ImageDiagnostic == [tag |-> "STB_Image", text |-> <<"Couldn't load file">>]

RECURSIVE Repeat(_, _)
Repeat(entry, times) == IF times = 0 THEN << >> ELSE <<entry>> \o Repeat(entry, times - 1)

\* the stbi_load calls, `failed` of which return nullptr: each failure is
\* logged and main goes on; then glBindBuffer(GL_ARRAY_BUFFER, 0),
\* glBindVertexArray(0) and, in the demos that have one, the block of
\* uniform writes that precedes the loop
MainTextures ==
    /\ At("textures")
    /\ \E failed \in 0..ImageLoads(demo) : log' = log \o Repeat(ImageDiagnostic, failed)
    /\ vertex_spec' = glBindBuffer(vertex_spec, vertex_array, "GL_ARRAY_BUFFER", 0)
    /\ vertex_array' = 0
    /\ IF InitUniforms(demo, locals) = << >>
       THEN pc' = "flag" /\ UNCHANGED block
       ELSE pc' = "block_use"
            /\ block' = [writes |-> InitUniforms(demo, locals), ret |-> "flag"]
    /\ UNCHANGED <<locals, sdl, demo, cursor, files, glvars, obj, ctor, proc,
                   window_should_close, last>>

\* one uniform write of main: a setter of the shader object, or glUniform4f
\* on the location glGetUniformLocation(shader_program, id) returns
UniformWrite(w, value) ==
    CASE w.op = "set_int" -> set_int(shader_program, w.id, value)
      [] w.op = "set_float" -> set_float(shader_program, w.id, value)
      [] w.op = "set_vec4" -> set_vec4(shader_program, w.id, value)
      [] w.op = "set_mat4" -> set_mat4(shader_program, w.id, value)
      [] w.op = "glUniform4f" ->
           glUniform4f(glGetUniformLocation(obj[shader_program].m_id, w.id),
                       value[1], value[2], value[3], value[4])

\* shader_program.use() at the head of a block of uniform writes
MainBlockUse ==
    /\ At("block_use")
    /\ current' = use(shader_program)
    /\ pc' = "block_set"
    /\ cursor' = 1
    /\ UNCHANGED <<locals, sdl, demo, vertex_spec, block, files, nextName, shaders, programs, log, obj,
                   ctor, proc, window_should_close, vertex_array, last>>

\* the next uniform write of the block
MainBlockSet ==
    /\ At("block_set")
    /\ cursor <= Len(block.writes)
    /\ \E value \in block.writes[cursor].values :
          programs' = UniformWrite(block.writes[cursor], value)
    /\ cursor' = cursor + 1
    /\ UNCHANGED <<locals, sdl, demo, vertex_spec, block, files, nextName, shaders, current, log, obj,
                   ctor, proc, pc, window_should_close, vertex_array, last>>

\* shader::unbind() at the end of the block
MainBlockUnbind ==
    /\ At("block_set")
    /\ cursor > Len(block.writes)
    /\ current' = unbind
    /\ pc' = block.ret
    /\ block' = NoBlock
    /\ cursor' = 0
    /\ UNCHANGED <<locals, sdl, demo, vertex_spec, files, nextName, shaders, programs, log, obj,
                   ctor, proc, window_should_close, vertex_array, last>>

\* bool window_should_close = false
MainCloseFlag ==
    /\ At("flag")
    /\ window_should_close' = FALSE
    /\ pc' = "loop"
    /\ UNCHANGED <<locals, sdl, demo, vertex_spec, block, cursor, files, glvars, log, obj, ctor, proc,
                   vertex_array, last>>

\* faulty variant: the loop condition is not tested
MainLoop_forever ==
    /\ At("loop")
    /\ pc' = "poll"
    /\ MainFrame

\* while(!window_should_close)
MainLoop ==
    /\ At("loop")
    /\ pc' = IF window_should_close THEN "teardown" ELSE "poll"
    /\ MainFrame

\* faulty variant: any key closes the window
HandleEvent_any_key(e, flag) ==
    CASE e.type = "SDL_QUIT" -> TRUE
      [] e.type = "SDL_KEYDOWN" -> TRUE
      [] OTHER -> flag

\* the close flag after the switch on one polled event
HandleEvent(e, flag) ==
    CASE e.type = "SDL_QUIT" -> TRUE
      [] e.type = "SDL_KEYDOWN" /\ e.sym = "SDLK_ESCAPE" -> TRUE
      [] OTHER -> flag

\* while(SDL_PollEvent(&e) != 0) { switch(e.type) ... }: one polled event;
\* a handler that uploads a uniform enters its use / set / unbind block
MainPollEvent(e) ==
    /\ At("poll")
    /\ window_should_close' = HandleEvent(e, window_should_close)
    /\ locals' = HandleEventLocals(demo, e, locals)
    /\ IF EventUniforms(demo, e, locals') = << >>
       THEN UNCHANGED <<pc, block>>
       ELSE pc' = "block_use"
            /\ block' = [writes |-> EventUniforms(demo, e, locals'), ret |-> "poll"]
    /\ UNCHANGED <<sdl, demo, vertex_spec, cursor, files, glvars, log, obj, ctor, proc,
                   vertex_array, last>>

\* SDL_PollEvent returns 0; the frame's duration is measured and the offset
\* advanced (DVD), the mouse is sampled while dragging (camera);
\* glClearColor; glClear
MainPollEmpty ==
    /\ At("poll")
    /\ \E ms \in FrameDurations, mouse \in MousePositions :
          /\ locals' = FrameLocals(demo, locals, ms, mouse)
          /\ Explored(locals')
    /\ pc' = "use"
    /\ UNCHANGED <<sdl, demo, vertex_spec, block, cursor, files, glvars, log, obj, ctor,
                   proc, window_should_close, vertex_array, last>>

\* shader_program.use() (glUseProgram(shader_program) in the inline demos)
MainUse ==
    /\ At("use")
    /\ current' = use(shader_program)
    /\ pc' = "uniforms"
    /\ cursor' = 1
    /\ UNCHANGED <<locals, sdl, demo, vertex_spec, block, files, nextName, shaders, programs, log, obj,
                   ctor, proc, window_should_close, vertex_array, last>>

\* the next uniform write of the frame; an optional one is made, after the
\* velocity on its axis is negated, when the offset on that axis is out of
\* its bound
MainSetUniform ==
    /\ At("uniforms")
    /\ cursor <= Len(FrameUniforms(demo))
    /\ IF FrameUniforms(demo)[cursor].optional
       THEN /\ Outside(locals, FrameUniforms(demo)[cursor].axis)
            /\ locals' = Bounce(locals, FrameUniforms(demo)[cursor].axis)
       ELSE UNCHANGED locals
    /\ \E value \in FrameUniforms(demo)[cursor].values :
          programs' = UniformWrite(FrameUniforms(demo)[cursor], value)
    /\ cursor' = cursor + 1
    /\ UNCHANGED <<sdl, demo, vertex_spec, block, files, nextName, shaders, current, log, obj,
                   ctor, proc, pc, window_should_close, vertex_array, last>>

\* the condition of an optional uniform write is false
MainSkipUniform ==
    /\ At("uniforms")
    /\ cursor <= Len(FrameUniforms(demo))
    /\ FrameUniforms(demo)[cursor].optional
    /\ ~Outside(locals, FrameUniforms(demo)[cursor].axis)
    /\ cursor' = cursor + 1
    /\ UNCHANGED <<locals, sdl, demo, vertex_spec, block, files, glvars, log, obj, ctor, proc, pc,
                   window_should_close, vertex_array, last>>

\* glBindVertexArray(vao)
MainBindVertexArray ==
    /\ At("uniforms")
    /\ cursor > Len(FrameUniforms(demo))
    /\ vertex_array' = vao
    /\ pc' = "draw"
    /\ cursor' = 1
    /\ UNCHANGED <<locals, sdl, demo, vertex_spec, block, files, glvars, log, obj, ctor, proc,
                   window_should_close, last>>

\* the values the uniform write before a draw call can pass
DrawValues(d) == IF DrawUniforms(d) = << >> THEN {0} ELSE DrawUniforms(d)[1].values

\* the uniform write that precedes it, if any, and
\* glDrawElements(GL_TRIANGLES, indices.size(), GL_UNSIGNED_INT, nullptr)
MainDraw ==
    /\ At("draw")
    /\ cursor <= Draws(demo)
    /\ \E value \in DrawValues(demo) :
          programs' = IF DrawUniforms(demo) = << >>
                      THEN programs
                      ELSE UniformWrite(DrawUniforms(demo)[1], value)
    /\ cursor' = cursor + 1
    /\ pc' = IF cursor = Draws(demo) THEN "unbind_vao" ELSE "draw"
    /\ UNCHANGED <<locals, sdl, demo, vertex_spec, block, files, nextName, shaders, current, log, obj,
                   ctor, proc, window_should_close, vertex_array, last>>

\* glBindVertexArray(0)
MainUnbindVertexArray ==
    /\ At("unbind_vao")
    /\ vertex_array' = 0
    /\ pc' = "unbind"
    /\ cursor' = 0
    /\ UNCHANGED <<locals, sdl, demo, vertex_spec, block, files, glvars, log, obj, ctor, proc,
                   window_should_close, last>>

\* shader::unbind() (glUseProgram(0)); SDL_GL_SwapWindow(window.get())
MainUnbindSwap ==
    /\ At("unbind")
    /\ current' = unbind
    /\ pc' = "loop"
    /\ UNCHANGED <<locals, sdl, demo, vertex_spec, block, cursor, files, nextName, shaders, programs, log,
                   obj, ctor, proc, window_should_close, vertex_array, last>>

\* glDeleteVertexArrays, glDeleteBuffers in the demos that call them;
\* SDL_GL_DeleteContext(gl_context); main comes to its end
MainTeardown ==
    /\ At("teardown")
    /\ vertex_spec' = IF demo \in DeletesBuffers THEN NoVertexSpec ELSE vertex_spec
    /\ sdl' = [sdl EXCEPT !.gl_context = FALSE]
    /\ pc' = "return"
    /\ cursor' = 1
    /\ UNCHANGED <<locals, demo, block, files, glvars, log, obj, ctor, proc,
                   window_should_close, vertex_array, last>>

\* main's locals that have a destructor to run, in the order of their declaration
Declared == <<"window", "renderer", "shader_program">>

\* faulty variant: the locals are destroyed in the order of their declaration
declaration_order(seq) == seq

\* automatic objects are destroyed in the reverse order of their declaration
reverse_order(seq) == [k \in 1 .. Len(seq) |-> seq[Len(seq) + 1 - k]]

\* the next local goes out of scope: ~shader; the renderer's deleter
\* (SDL_DestroyRenderer); the window's deleter (SDL_DestroyWindow, SDL_Quit).
\* After the last one main has returned
MainDestroy ==
    /\ At("return")
    /\ cursor <= Len(Declared)
    /\ LET local == reverse_order(Declared)[cursor]
       IN  /\ programs' = IF local = "shader_program" /\ demo \notin InlineSources
                          THEN shader_dtor(shader_program)
                          ELSE programs
           /\ obj' = IF local = "shader_program"
                     THEN [obj EXCEPT ![shader_program].state = "destroyed"]
                     ELSE obj
           /\ sdl' = CASE local = "renderer" -> [sdl EXCEPT !.renderer = FALSE]
                       [] local = "window" -> [sdl EXCEPT !.window = FALSE, !.lib = FALSE]
                       [] OTHER -> sdl
    /\ cursor' = cursor + 1
    /\ IF cursor = Len(Declared)
       THEN pc' = "end" /\ proc' = "exited"
       ELSE UNCHANGED <<pc, proc>>
    /\ UNCHANGED <<locals, demo, vertex_spec, block, files, nextName, shaders, current, log,
                   ctor, window_should_close, vertex_array, last>>

\* the contents the two shader files of the demo can have when it starts
\* (fewer are explored for the two demos whose loop has the most state)
DemoFiles(d) ==
    CASE d \in InlineSources -> {DefaultFiles}
      [] d \in {"DVD_ScreenSaver", "FreeCameraMovement"} ->
           { [DefaultFiles EXCEPT ![ShaderPaths(d).vs] = v, ![ShaderPaths(d).fs] = f] :
               v \in {ShaderTexts(d).vs, Unreadable},
               f \in {ShaderTexts(d).fs, "fs_unlinkable"} }
      [] OTHER ->
           { [DefaultFiles EXCEPT ![ShaderPaths(d).vs] = v, ![ShaderPaths(d).fs] = f] :
               v \in {ShaderTexts(d).vs, "vs_broken", Unreadable},
               f \in {ShaderTexts(d).fs, "fs_broken", "fs_unlinkable", Unreadable} }

DemoInit ==
    /\ demo \in Demos
    /\ files \in DemoFiles(demo)
    /\ nextName = 1
    /\ shaders = << >>
    /\ programs = << >>
    /\ current = NoProgram
    /\ log = << >>
    /\ obj = [r \in Resources |-> [state |-> "unborn", m_id |-> 0]]
    /\ ctor = NoCtor
    /\ proc = "running"
    /\ pc = "init"
    /\ window_should_close = FALSE
    /\ vertex_array = 0
    /\ last = NoCall
    /\ vertex_spec = NoVertexSpec
    /\ block = NoBlock
    /\ cursor = 0
    /\ locals = Locals(demo)
    /\ sdl = NoSdl

DemoNext ==
    \/ MainInitContext
    \/ MainBuffers
    \/ MainAttribs
    \/ MainShader
    \/ ShaderCtorVertex
    \/ ShaderCtorFragment
    \/ ShaderCtorLink
    \/ MainIndexBuffer
    \/ MainTextures
    \/ MainBlockUse
    \/ MainBlockSet
    \/ MainBlockUnbind
    \/ MainCloseFlag
    \/ MainLoop
    \/ \E e \in Events : MainPollEvent(e)
    \/ MainPollEmpty
    \/ MainUse
    \/ MainSetUniform
    \/ MainSkipUniform
    \/ MainBindVertexArray
    \/ MainDraw
    \/ MainUnbindVertexArray
    \/ MainUnbindSwap
    \/ MainTeardown
    \/ MainDestroy

DemoSpec == DemoInit /\ [][DemoNext]_vars

\* The scheduling of a demo: main is a sequential program whose statements
\* all return, so it takes its next step from every position (weak
\* fairness of the steps taken away from the event poll); and the queue of
\* pending events is finite, so SDL_PollEvent returns 0 after finitely many
\* events (strong fairness of that step, since the handlers that upload a
\* uniform leave the polling position and come back to it).
FairDemoSpec ==
    /\ DemoSpec
    /\ WF_vars(DemoNext /\ pc # "poll")
    /\ SF_vars(MainPollEmpty)

----------------------------------------------------------------------------
(* Vocabulary of the properties.                                           *)

Constructed(r) == obj[r].state = "alive"

\* the program object a constructed resource holds in m_id
Program(r) == programs[obj[r].m_id]

\* the resource's construction ended with a successfully linked program
Linked(r) ==
    /\ Constructed(r)
    /\ obj[r].m_id \in DOMAIN programs
    /\ Program(r).linked

\* `id` is an active uniform of the resource's own program
HasUniform(r, id) ==
    /\ Linked(r)
    /\ \E i \in 1..Len(Program(r).uniforms) : Program(r).uniforms[i].name = id

UniformOf(r, id) ==
    LET us == Program(r).uniforms
    IN  us[CHOOSE i \in 1..Len(us) : us[i].name = id]

Setters == {"set_bool", "set_int", "set_float", "set_mat4"}

\* the value a setter call is meant to leave in the uniform
Written(op, value) ==
    IF op = "set_bool" THEN (IF value THEN 1 ELSE 0) ELSE value

\* the uniform type each setter writes
SetterType(op) ==
    CASE op = "set_bool" -> "int"
      [] op = "set_int" -> "int"
      [] op = "set_float" -> "float"
      [] op = "set_vec4" -> "vec4"
      [] op = "set_mat4" -> "mat4"

StageTag(type) == IF type = "vertex" THEN "Vertex Shader" ELSE "Fragment Shader"

\* the step is the call of set_bool, set_int, set_float or set_mat4 that
\* `last` records after it
SetterCall ==
    CASE last'.op = "set_bool" -> SetBool(last'.self, last'.id, last'.value)
      [] last'.op = "set_int" -> SetInt(last'.self, last'.id, last'.value)
      [] last'.op = "set_float" -> SetFloat(last'.self, last'.id, last'.value)
      [] last'.op = "set_mat4" -> SetMat4(last'.self, last'.id, last'.value)
      [] OTHER -> FALSE

\* the step is the use() or unbind() call that `last` records after it
BindCall ==
    CASE last'.op = "use" -> Use(last'.self)
      [] last'.op = "unbind" -> Unbind
      [] OTHER -> FALSE

----------------------------------------------------------------------------
(* C1 - C4: what construction leaves behind when something fails.          *)

\* C1: once a constructor call has finished (create_program has returned),
\* both shader units have been destroyed: no shader-unit object is still
\* allocated in the context, whether the link succeeded or failed.
C1_UnitsReleasedAfterLink ==
    ctor.step = "none" => DOMAIN shaders = {}

\* C2: whenever one of the two paths given to the constructor cannot be
\* read, the failure is reported as an I/O error (a diagnostic of its own,
\* not a compile or link diagnostic) and the unreadable file is not taken
\* for a readable file with empty text.
C2_UnreadablePathIsIoError ==
    (/\ ctor.step # "none"
     /\ \/ files[ctor.vs_path] = Unreadable
        \/ files[ctor.fs_path] = Unreadable)
    => /\ \E i \in 1..Len(log) : log[i].tag = "IoError"
       /\ ctor.step \notin {"create_vs", "create_fs", "create_program"}

\* the failures of the demo's shader construction: unreadable files, units
\* that did not compile, a program that did not link
DemoFailures ==
    LET paths == IF demo \in InlineSources
                 THEN {}
                 ELSE {ShaderPaths(demo).vs, ShaderPaths(demo).fs}
        io == {p \in paths : files[p] = Unreadable}
        units == {u \in Program(shader_program).attached : ~shaders[u].compiled}
    IN  Cardinality(io) + Cardinality(units)
          + (IF Program(shader_program).linked THEN 0 ELSE 1)

\* C3: no failure inside the shader core stops the demo: the process is
\* never aborted, the constructor returns with one diagnostic logged for
\* each failure (unreadable file, compile failure, link failure), and main
\* ends only after the loop was left on a quit or Escape event.
C3_ShaderFailureNeverStopsDemo ==
    /\ proc # "aborted"
    /\ Constructed(shader_program) => Len(log) >= DemoFailures
    /\ proc = "exited" => window_should_close

\* C4: a resource whose construction had a compile or link failure is
\* marked unusable. The class has one data member, m_id, which holds a
\* program name (never 0) after a successful link; so a mark a caller can
\* tell from the resource is m_id holding no program.
C4_FailedResourceIsMarked ==
    \A r \in Resources :
        (Constructed(r) /\ ~Program(r).linked) => obj[r].m_id = NoProgram

----------------------------------------------------------------------------
(* C5 - C7: the steps of construction.                                     *)

\* what a create_shader call for `type` on `source` does; `returned` is the
\* constructor's local that receives the handle
CreateShaderPost(type, source, returned) ==
    LET fresh == DOMAIN shaders' \ DOMAIN shaders
    IN  /\ Cardinality(fresh) = 1
        /\ \A u \in DOMAIN shaders : shaders'[u] = shaders[u]
        /\ LET shader == CHOOSE u \in fresh : TRUE
               unit == shaders'[shader]
           IN  /\ unit.type = type
               /\ unit.source = source
               /\ proc' = "running" => returned = shader
               /\ log' = IF unit.compiled
                         THEN log
                         ELSE Append(log, [tag |-> StageTag(type), text |-> unit.info_log])

\* C5: create_shader(stage, source) allocates one unit and returns its
\* handle whether the unit compiled or not; it appends exactly one
\* diagnostic, tagged with its stage and carrying the driver's log, when
\* the compile status is non-success, and none when it is success.
C5_CreateShaderContract ==
    [][ /\ ShaderCtorVertex => CreateShaderPost("vertex", ctor.vs_source, ctor'.vs)
        /\ ShaderCtorFragment => CreateShaderPost("fragment", ctor.fs_source, ctor'.fs) ]_vars

\* C5 witness: create_shader has returned the handle of a fragment unit that
\* failed to compile, after a vertex unit that compiled, with one diagnostic
C5_Witness ==
    /\ ctor.step = "create_program"
    /\ shaders[ctor.vs].compiled
    /\ ~shaders[ctor.fs].compiled
    /\ Len(log) = 1
    /\ log[1].tag = "Fragment Shader"

CreateProgramPost ==
    LET fresh == DOMAIN programs' \ DOMAIN programs
    IN  /\ Cardinality(fresh) = 1
        /\ LET handle == CHOOSE p \in fresh : TRUE
               program == programs'[handle]
           IN  /\ program.attached = {ctor.vs, ctor.fs}
               /\ program.linked = glLinkStatus(shaders[ctor.vs], shaders[ctor.fs])
               /\ proc' = "running" => obj'[ctor.self].m_id = handle
               /\ log' = IF program.linked
                         THEN log
                         ELSE Append(log, [tag |-> "Shader Linking", text |-> program.info_log])

\* C6: create_program(vs, fs) creates one program, attaches both units,
\* links it once (its link status and attachments never change afterwards)
\* and returns its handle whether the link succeeded or not; it appends
\* exactly one link diagnostic when the link status is non-success and none
\* otherwise; and it is called whatever the compile status of the units.
C6_CreateProgramContract ==
    /\ [](Running /\ ctor.step = "create_program" => ENABLED ShaderCtorLink)
    /\ [][ /\ ShaderCtorLink => CreateProgramPost
           /\ \A p \in DOMAIN programs :
                /\ p \in DOMAIN programs'
                /\ programs'[p].linked = programs[p].linked
                /\ programs'[p].attached = programs[p].attached ]_vars

\* C6 witness: create_program has returned the handle of a program that
\* failed to link because a unit had not compiled; the link diagnostic is
\* the last one logged
C6_Witness ==
    \E r \in Resources :
        /\ Constructed(r)
        /\ ~Program(r).linked
        /\ \E u \in Program(r).attached : ~shaders[u].compiled
        /\ Len(log) = 2
        /\ log[2].tag = "Shader Linking"

\* a constructed resource holds the program made by its one link step, of
\* the two units made by its two compile steps
BuiltFromItsSteps(r) ==
    /\ obj[r].m_id \in DOMAIN programs
    /\ \E v, f \in Program(r).attached :
          /\ Program(r).attached = {v, f}
          /\ shaders[v].type = "vertex"
          /\ shaders[f].type = "fragment"

\* C7: construction compiles the vertex stage, then the fragment stage, then
\* links the two units, each exactly once; the handle the link step returns
\* becomes the resource's program handle; no later use, unbind or set_* call
\* changes it.
C7_ConstructionOrderAndHandle ==
    /\ [](\A r \in Resources : Constructed(r) => BuiltFromItsSteps(r))
    /\ [](Idle =>
            LET n == Cardinality({r \in Resources : Constructed(r)})
            IN  /\ Cardinality(DOMAIN shaders) = 2 * n
                /\ Cardinality(DOMAIN programs) = n)
    /\ [][ /\ ShaderCtorVertex => (ctor.vs = 0 /\ ctor.fs = 0)
           /\ ShaderCtorFragment => (ctor.vs \in DOMAIN shaders /\ ctor.fs = 0)
           /\ ShaderCtorLink =>
                /\ {ctor.vs, ctor.fs} \subseteq DOMAIN shaders
                /\ obj[ctor.self].m_id = 0
           /\ \A r \in Resources : Constructed(r) => obj'[r] = obj[r] ]_vars

\* C7 witness: both resources are constructed and calls have been made on
\* them since (a program is bound and a uniform has been written)
C7_Witness ==
    /\ \A r \in Resources : Linked(r)
    /\ current = obj["r2"].m_id
    /\ last.op = "set_mat4"
    /\ HasUniform("r1", "transform")
    /\ UniformOf("r1", "transform").value = Identity

----------------------------------------------------------------------------
(* C8 - C10: uniform setters and the current-program slot.                 *)

\* the uniform storage of every program other than the resource's own is
\* left as it was by the step
OtherProgramsUntouched(self) ==
    \A p \in DOMAIN programs \ {obj[self].m_id} : programs'[p] = programs[p]

\* C8 as stated: in every state, after R.set_bool/set_int/set_float/set_mat4
\* (name, v) with a name that exists in R's program, that uniform of R's own
\* program holds v (a matrix untransposed), and the call changed no other
\* program's uniforms; whichever program, or none, is current.
C8_SetterWritesOwnProgram ==
    /\ []((last.op \in Setters /\ HasUniform(last.self, last.id))
            => UniformOf(last.self, last.id).value = Written(last.op, last.value))
    /\ [][ (SetterCall /\ HasUniform(last'.self, last'.id))
              => OtherProgramsUntouched(last'.self) ]_vars

\* R's program is the current program and `id` names one of its uniforms,
\* of the type the setter `op` writes
WritableThrough(self, op, id) ==
    /\ HasUniform(self, id)
    /\ current = obj[self].m_id
    /\ UniformOf(self, id).type = SetterType(op)

\* C8 amended: the same, for a resource whose program is the current program
\* and a uniform of the type the setter writes.
C8_SetterWritesCurrentOwnProgram ==
    /\ []((last.op \in Setters /\ WritableThrough(last.self, last.op, last.id))
            => UniformOf(last.self, last.id).value = Written(last.op, last.value))
    /\ [][ (SetterCall /\ HasUniform(last'.self, last'.id)
                        /\ current = obj[last'.self].m_id)
              => OtherProgramsUntouched(last'.self) ]_vars

\* C8 witness: with its program current, and another linked program in the
\* context, r1.set_mat4("transform", m) for a matrix that differs from its
\* transpose has been called and the uniform holds m
C8_Witness ==
    /\ last = [op |-> "set_mat4", self |-> "r1", id |-> "transform", value |-> Translation]
    /\ Linked("r2")
    /\ WritableThrough("r1", "set_mat4", "transform")
    /\ UniformOf("r1", "transform").value = Translation

\* C9: a setter called with a name that is no uniform of the resource's
\* program returns normally and changes nothing: no uniform value of any
\* program, not the current-program slot, no diagnostic, no handle.
C9_MissingUniformIsNoOp ==
    [][ (SetterCall /\ ~HasUniform(last'.self, last'.id))
           => UNCHANGED <<programs, current, proc, log, obj, shaders>> ]_vars

\* C9 witness: set_int("nonexistent", 1) has been called on a resource whose
\* linked program is current and has an int uniform at location 1 that
\* still holds 0
C9_Witness ==
    /\ last = [op |-> "set_int", self |-> "r1", id |-> "nonexistent", value |-> 1]
    /\ Linked("r1")
    /\ current = obj["r1"].m_id
    /\ HasUniform("r1", "texture_sample")
    /\ glGetUniformLocation(obj["r1"].m_id, "texture_sample") = 1
    /\ UniformOf("r1", "texture_sample").value = 0

\* use() and unbind() change no resource's handle and no uniform value
BindCallsFrame ==
    BindCall => UNCHANGED <<obj, programs>>

\* C10 as stated: after R.use() the current-program slot holds exactly R's
\* program handle, whatever it held before; after unbind() it holds no
\* program; neither changes a handle or a uniform value.
C10_UseBindsUnbindClears ==
    /\ [](last.op = "use" => current = obj[last.self].m_id)
    /\ [](last.op = "unbind" => current = NoProgram)
    /\ [][BindCallsFrame]_vars

\* C10 amended: after R.use() on a resource whose program linked
\* successfully the slot holds exactly R's program handle, whatever it held
\* before; R.use() on a resource whose link failed leaves the slot as it
\* was; after unbind() the slot holds no program; neither changes a handle
\* or a uniform value.
C10_UseBindsLinkedUnbindClears ==
    /\ []((last.op = "use" /\ Linked(last.self)) => current = obj[last.self].m_id)
    /\ [](last.op = "unbind" => current = NoProgram)
    /\ [][ /\ (BindCall /\ last'.op = "use" /\ ~Linked(last'.self)) => current' = current
           /\ BindCallsFrame ]_vars

\* C10 witness: r2.use() has been called while r1's program, with a written
\* uniform, was the one bound before it; the slot holds r2's program
C10_Witness ==
    /\ last = [op |-> "use", self |-> "r2", id |-> "none", value |-> 0]
    /\ Linked("r1") /\ Linked("r2")
    /\ current = obj["r2"].m_id
    /\ HasUniform("r1", "ourColor")
    /\ UniformOf("r1", "ourColor").value = 1

----------------------------------------------------------------------------
(* C11 - C13: binding again, binding a failed program, owning a handle.     *)

\* C11: use() is idempotent: right after a call R.use(), whatever the slot
\* held before it, a second R.use() would leave the current-program slot as
\* it is; and no use() call changes a program's uniforms or any other
\* object of the context.
C11_UseIsIdempotent ==
    /\ [](last.op = "use" => use(last.self) = current)
    /\ [][BindCall => UNCHANGED <<nextName, shaders, programs, vertex_array>>]_vars

\* C11 witness: use() has been called on "r2" while "r1" was current and had
\* a uniform written; the slot holds the program of "r2"
C11_Witness ==
    /\ last.op = "use" /\ last.self = "r2"
    /\ Linked("r1") /\ Linked("r2")
    /\ current = obj["r2"].m_id
    /\ HasUniform("r1", "transform")
    /\ UniformOf("r1", "transform").value = Translation

C13_HandleHasOneOwner ==
    \A a, b \in Resources :
        (a # b /\ Constructed(a) /\ Constructed(b)) => obj[a].m_id # obj[b].m_id

----------------------------------------------------------------------------
(* C14 - C16: the close flag, fatal failures, what main releases.          *)

\* main is inside its event / draw loop
InLoop ==
    \/ pc \in {"loop", "poll", "use", "uniforms", "draw", "unbind_vao", "unbind"}
    \/ pc \in {"block_use", "block_set"} /\ block.ret = "poll"

ClosingEvent(e) ==
    \/ e.type = "SDL_QUIT"
    \/ e.type = "SDL_KEYDOWN" /\ e.sym = "SDLK_ESCAPE"

\* C14: the close flag is false when the loop is entered; it changes only by
\* becoming true when a quit event or an Escape key-down is polled; every
\* other event and key leaves it as it is; it is never reset; and the loop
\* is left only by the loop condition finding the flag true.
C14_CloseFlag ==
    /\ [][MainCloseFlag => (~window_should_close' /\ pc' = "loop")]_vars
    /\ [][window_should_close' # window_should_close =>
            /\ window_should_close'
            /\ \E e \in Events : ClosingEvent(e) /\ MainPollEvent(e)]_vars
    /\ [][\A e \in Events :
            (MainPollEvent(e) /\ ~ClosingEvent(e)) => UNCHANGED window_should_close]_vars
    /\ [][(InLoop /\ ~InLoop') => (pc = "loop" /\ window_should_close /\ pc' = "teardown")]_vars
    /\ [](InLoop => Running)

\* C14 witness: the camera demo has left its loop with the flag set
C14_Witness ==
    /\ demo = "FreeCameraMovement"
    /\ pc = "teardown"
    /\ window_should_close

\* C15: a failure of the context set-up is the only fatal failure: it logs
\* and ends the process with a failure status before any GL object or
\* shader exists; no other failure (unreadable shader file, compile or link
\* failure, image that fails to load) ends the process, which otherwise
\* ends only by main returning after the loop.
C15_OnlyContextInitIsFatal ==
    /\ proc = "exit_failure" =>
          /\ DOMAIN shaders = {} /\ DOMAIN programs = {}
          /\ vertex_spec = NoVertexSpec
          /\ obj[shader_program].state = "unborn"
          /\ Len(log) = 1 /\ log[1].tag \in {"SDL2", "glad"}
    /\ proc \in {"running", "exit_failure", "exited"}
    /\ proc = "exited" => window_should_close

\* C16: no demo releases its shader program: a program object, once
\* created, stays in the context on every path to the end of the process,
\* the destruction of the shader object included.
C16_ProgramNeverReleased ==
    /\ [][\A p \in DOMAIN programs : p \in DOMAIN programs']_vars
    /\ [](obj[shader_program].state \in {"alive", "destroyed"}
            => obj[shader_program].m_id \in DOMAIN programs)

\* C16 witness: main has returned, the vertex array and the buffers were
\* deleted, the shader object is destroyed and its program is still there
C16_Witness ==
    /\ demo = "DVD_ScreenSaver"
    /\ proc = "exited"
    /\ vertex_spec = NoVertexSpec
    /\ obj[shader_program].state = "destroyed"
    /\ obj[shader_program].m_id \in DOMAIN programs
    /\ programs[obj[shader_program].m_id].linked

----------------------------------------------------------------------------
(* C17 - C20: vertex layout, attribute locations, uniform names, draws.    *)

\* main has declared its attributes and uploaded its index list
VertexSetUp == vertex_spec.elements # << >>

\* the component counts of the attributes 0 .. index - 1, added up
RECURSIVE SizesBelow(_, _)
SizesBelow(attribs, index) ==
    IF index = 0 THEN 0 ELSE attribs[index - 1].size + SizesBelow(attribs, index - 1)

\* C17: the declared attributes tile the vertex: their indices are 0, 1, ..;
\* the offset of each, in floats, is the sum of the component counts of
\* those before it; the component counts add up to the stride in floats;
\* the vertex buffer holds a whole number of vertices; and every index of
\* the index list is smaller than that number.
C17_AttributesTileTheVertex ==
    VertexSetUp =>
        LET attribs == vertex_spec.attribs
            count == Cardinality(DOMAIN attribs)
            floats == vertex_spec.array_buffer \div sizeof_GLfloat
        IN  /\ count > 0
            /\ DOMAIN attribs = 0..(count - 1)
            /\ vertex_spec.array_buffer % sizeof_GLfloat = 0
            /\ \A index \in DOMAIN attribs :
                  LET stride == attribs[index].stride \div sizeof_GLfloat
                  IN  /\ attribs[index].stride % sizeof_GLfloat = 0
                      /\ attribs[index].pointer = sizeof_GLfloat * SizesBelow(attribs, index)
                      /\ stride = SizesBelow(attribs, count)
                      /\ floats % stride = 0
                      /\ \A j \in 1..Len(vertex_spec.elements) :
                            vertex_spec.elements[j] < floats \div stride

\* C17 witness: the Transformations demo draws from its three attributes
C17_Witness ==
    /\ demo = "Transformations"
    /\ pc = "draw"
    /\ Cardinality(DOMAIN vertex_spec.attribs) = 3
    /\ Len(vertex_spec.elements) = 6

\* C18: in a demo whose vertex source is in the repository, the attribute
\* indices declared and enabled are the `location`s of that source, and the
\* component count declared for each is the vector size at its location.
C18_AttributesMatchLocations ==
    (VertexSetUp /\ demo \in VertexSourcePresent) =>
        LET locations == SourceText(ShaderTexts(demo).vs).attributes
            attribs == vertex_spec.attribs
        IN  /\ {index \in DOMAIN attribs : attribs[index].enabled} = DOMAIN locations
            /\ DOMAIN attribs = DOMAIN locations
            /\ \A index \in DOMAIN locations : attribs[index].size = locations[index]

\* C18 witness: the Shaders demo draws with attributes 0 and 1 enabled
C18_Witness ==
    /\ demo = "Shaders"
    /\ pc = "draw"
    /\ vertex_spec.attribs[1].enabled
    /\ vertex_spec.attribs[1].size = 3

\* the uniform write main is about to make, if it is about to make one
NextWrites ==
    IF ~Running \/ ctor.step # "none" THEN {}
    ELSE CASE pc = "uniforms" /\ cursor <= Len(FrameUniforms(demo)) ->
                {FrameUniforms(demo)[cursor]}
           [] pc = "block_set" /\ cursor <= Len(block.writes) -> {block.writes[cursor]}
           [] pc = "draw" /\ DrawUniforms(demo) # << >> -> {DrawUniforms(demo)[1]}
           [] OTHER -> {}

\* the names declared `uniform` in the demo's vertex or fragment source
DeclaredUniforms(d) ==
    LET decls == SourceText(ShaderTexts(d).vs).uniforms \o SourceText(ShaderTexts(d).fs).uniforms
    IN  {decls[j].name : j \in 1..Len(decls)}

\* C19: in a demo whose two shader sources are in the repository, every
\* name passed to a uniform write is declared as a uniform in the vertex or
\* the fragment source, so that no write of a frame is silently ignored.
C19_UniformNamesMatchSource ==
    demo \in SourcesPresent =>
        \A w \in NextWrites :
            /\ w.id \in DeclaredUniforms(demo)
            /\ Linked(shader_program)
                 => glGetUniformLocation(obj[shader_program].m_id, w.id) # -1

\* C20: every draw call is issued with the demo's shader program in the
\* current-program slot and the demo's vertex array in the current-vertex-
\* array slot; no draw call is issued with either slot empty.
C20_DrawWithProgramAndVertexArray ==
    (Running /\ pc = "draw") =>
        /\ current # NoProgram
        /\ current = obj[shader_program].m_id
        /\ vertex_array # 0
        /\ vertex_array = vao

\* C21: in every demo that uses the shader class, every uniform setter call
\* on the shader resource happens while that resource's program is the
\* current program: whenever main is about to call a set_* function (in the
\* one-time set-up block, in the resize and wheel handlers, in the per-frame
\* section), the current-program slot holds the program of shader_program.
C21_SettersWhileProgramCurrent ==
    (demo \notin InlineSources /\ NextWrites # {}) =>
        /\ current # NoProgram
        /\ current = obj[shader_program].m_id

\* main has left its loop
AfterLoop == pc \in {"teardown", "return", "end"}

\* C22: once a quit event or a press of Escape has been polled, and the
\* queue of pending events being finite, the demo finishes the events of
\* that frame, renders and swaps that one frame, leaves the loop without
\* starting another frame and eventually completes its teardown; after it
\* has left the loop it never polls events or draws again.
C22_QuitEndsTheDemo ==
    /\ (InLoop /\ window_should_close /\ pc = "poll") ~> (pc = "draw")
    /\ (InLoop /\ window_should_close /\ pc = "draw") ~> (pc = "loop")
    /\ [][(pc = "loop" /\ window_should_close) => pc' = "teardown"]_vars
    /\ (InLoop /\ window_should_close) ~> (proc = "exited" /\ pc = "end")
    /\ [][AfterLoop => AfterLoop']_vars

\* C22 witness: the DVD demo has returned from main after a quit event
C22_Witness ==
    /\ demo = "DVD_ScreenSaver"
    /\ window_should_close
    /\ proc = "exited"
    /\ ~sdl.lib

\* C23: at every buffer swap and at the start of each frame's event
\* processing (and so between any two polled events), the current-program
\* slot and the current-vertex-array slot are both empty, in every demo.
C23_SlotsEmptyBetweenFrames ==
    /\ []((Running /\ pc \in {"loop", "poll"}) =>
            (current = NoProgram /\ vertex_array = 0))
    /\ [][MainUnbindSwap => (current' = NoProgram /\ vertex_array' = 0)]_vars

\* C23 witness: the camera demo, its program linked, polls events after a
\* frame in which the program and the vertex array were bound
C23_Witness ==
    /\ demo = "FreeCameraMovement"
    /\ Running /\ pc = "poll"
    /\ Linked(shader_program)
    /\ UniformOf(shader_program, "model").value = Translation
    /\ current = NoProgram /\ vertex_array = 0

\* C24: the index buffer is bound and filled while the demo's vertex array
\* is bound, and is not unbound before the vertex array is; the attribute
\* declarations are made while the vertex array and the vertex buffer are
\* both bound; hence at every draw call the bound vertex array has an index
\* buffer attached, holding the demo's indices, and enabled attributes that
\* all read from the demo's vertex buffer.
C24_VertexArrayCompleteAtDraw ==
    /\ [][MainIndexBuffer =>
            /\ vertex_array = vao
            /\ vertex_spec'.element_binding = ibo
            /\ vertex_spec'.elements = indices(demo)]_vars
    /\ [][MainAttribs => (vertex_array = vao /\ vertex_spec.array_binding = vbo)]_vars
    /\ [][(vertex_spec.element_binding = ibo /\ vertex_spec'.element_binding # ibo) =>
            (vertex_array = 0 /\ AfterLoop)]_vars
    /\ []((Running /\ pc = "draw") =>
            /\ vertex_array = vao
            /\ vertex_spec.element_binding = ibo
            /\ vertex_spec.elements = indices(demo)
            /\ DOMAIN vertex_spec.attribs # {}
            /\ \A index \in DOMAIN vertex_spec.attribs :
                  /\ vertex_spec.attribs[index].enabled
                  /\ vertex_spec.attribs[index].buffer = vbo)

\* C24 witness: the DVD demo is at its draw call, its vertex array bound
\* with the index buffer and two enabled attributes of the vertex buffer
C24_Witness ==
    /\ demo = "DVD_ScreenSaver"
    /\ Running /\ pc = "draw"
    /\ vertex_array = vao
    /\ vertex_spec.array_binding = 0
    /\ vertex_spec.element_binding = ibo
    /\ Len(vertex_spec.elements) = 6
    /\ DOMAIN vertex_spec.attribs = {0, 1}
    /\ vertex_spec.attribs[1].buffer = vbo

\* some OpenGL call changes the state of the context
GLCall ==
    \/ <<nextName, shaders, programs, current>>' # <<nextName, shaders, programs, current>>
    \/ vertex_array' # vertex_array
    \/ vertex_spec' # vertex_spec

\* C25: on normal exit the teardown is ordered: the vertex array and the
\* buffers are deleted only after the loop has been left and before the GL
\* context is deleted; the context is deleted before the renderer and the
\* window are destroyed; the renderer is destroyed before the window; SDL
\* is shut down last; and no OpenGL call is issued once the context has
\* been deleted.
C25_TeardownOrder ==
    /\ [][(vertex_spec # NoVertexSpec /\ vertex_spec' = NoVertexSpec) =>
            (pc = "teardown" /\ window_should_close /\ sdl.gl_context)]_vars
    /\ [][(sdl.gl_context /\ ~sdl'.gl_context) =>
            /\ pc = "teardown"
            /\ sdl.renderer /\ sdl.window /\ sdl.lib
            /\ (demo \in DeletesBuffers => vertex_spec' = NoVertexSpec)]_vars
    /\ [][(sdl.renderer /\ ~sdl'.renderer) => (~sdl.gl_context /\ sdl.window /\ sdl'.window)]_vars
    /\ [][(sdl.window /\ ~sdl'.window) => (~sdl.gl_context /\ ~sdl.renderer)]_vars
    /\ [][(sdl.lib /\ ~sdl'.lib) =>
            /\ ~sdl'.gl_context /\ ~sdl'.renderer /\ ~sdl'.window
            /\ obj'[shader_program].state = "destroyed"
            /\ proc' = "exited"]_vars
    /\ [][GLCall => sdl.gl_context]_vars
    /\ [](proc = "exited" => sdl = NoSdl)

\* C25 witness: the camera demo has returned from main: its vertex array
\* and buffers are deleted, the context, renderer and window are gone and
\* SDL is shut down
C25_Witness ==
    /\ demo = "FreeCameraMovement"
    /\ proc = "exited"
    /\ window_should_close
    /\ vertex_spec = NoVertexSpec
    /\ sdl = NoSdl

Clamp(value, low, high) ==
    IF value < low THEN low ELSE IF value > high THEN high ELSE value

WheelEvent(e) == e.type = "SDL_MOUSEWHEEL" /\ e.y # 0

\* C26: the camera demo's field of view stays in [1, 45]: it starts at 45,
\* each wheel event with a non-zero amount y replaces it by
\* clamp(fov - y, 1, 45), and no other event or step changes it.
C26_FovClamped ==
    /\ (demo = "FreeCameraMovement" => locals.fov = 45)
    /\ [](demo = "FreeCameraMovement" => locals.fov \in 1 .. 45)
    /\ [][\A e \in Events :
            (demo = "FreeCameraMovement" /\ MainPollEvent(e)) =>
                locals'.fov = IF WheelEvent(e)
                              THEN Clamp(locals.fov - e.y, 1, 45)
                              ELSE locals.fov]_vars
    /\ [][locals'.fov # locals.fov => \E e \in Events : WheelEvent(e) /\ MainPollEvent(e)]_vars

\* C26 witness: a wheel event has taken the field of view to the lower
\* limit, the handler's upload is about to start
C26_Witness ==
    /\ demo = "FreeCameraMovement"
    /\ locals.fov = 1
    /\ pc = "block_use" /\ block.ret = "poll"

\* main is not inside a block of uniform writes, and is past the one of its set-up
BetweenBlocks ==
    /\ Running
    /\ pc \in {"flag", "loop", "poll", "use", "uniforms", "draw", "unbind_vao", "unbind",
               "teardown"}

ResizeEvent(e) == e.type = "SDL_WINDOWEVENT" /\ e.sym = "SDL_WINDOWEVENT_SIZE_CHANGED"

\* C27: in the camera demo the projection matrix last uploaded is the one
\* computed from the current field of view and the current window width and
\* height: a resize records the new size and uploads the projection of the
\* current fov and the new size, a wheel event uploads the projection of the
\* new fov and the most recently recorded size (not the size the window was
\* created with).
C27_ProjectionFollowsFovAndSize ==
    /\ []((demo = "FreeCameraMovement" /\ BetweenBlocks /\ Linked(shader_program)) =>
            UniformOf(shader_program, "projection").value =
                perspective(locals.fov, locals.window_width, locals.window_height))
    /\ [][\A e \in Events :
            (demo = "FreeCameraMovement" /\ MainPollEvent(e) /\ ResizeEvent(e)) =>
                /\ locals'.window_width = e.x /\ locals'.window_height = e.y
                /\ locals'.fov = locals.fov
                /\ pc' = "block_use"
                /\ Len(block'.writes) = 1
                /\ block'.writes[1].op = "set_mat4" /\ block'.writes[1].id = "projection"
                /\ block'.writes[1].values = {perspective(locals.fov, e.x, e.y)}]_vars
    /\ [][\A e \in Events :
            (demo = "FreeCameraMovement" /\ MainPollEvent(e) /\ WheelEvent(e)) =>
                /\ locals'.window_width = locals.window_width
                /\ locals'.window_height = locals.window_height
                /\ pc' = "block_use"
                /\ Len(block'.writes) = 1
                /\ block'.writes[1].op = "set_mat4" /\ block'.writes[1].id = "projection"
                /\ block'.writes[1].values =
                      {perspective(locals'.fov, locals.window_width, locals.window_height)}]_vars

\* C27 witness: after a resize to 800x600 and a wheel event the program
\* holds the projection of fov 23 and 800x600
C27_Witness ==
    /\ demo = "FreeCameraMovement"
    /\ BetweenBlocks /\ pc = "poll"
    /\ Linked(shader_program)
    /\ locals.fov = 23
    /\ locals.window_width = 800 /\ locals.window_height = 600
    /\ UniformOf(shader_program, "projection").value = perspective(23, 800, 600)
    /\ perspective(23, 800, 600) # perspective(23, 1280, 720)

LeftPress(e) == e.type = "SDL_MOUSEBUTTONDOWN" /\ e.sym = "SDL_BUTTON_LEFT"
LeftRelease(e) == e.type = "SDL_MOUSEBUTTONUP" /\ e.sym = "SDL_BUTTON_LEFT"

\* the reference mouse position of the camera demo
LastMouse == <<locals.last_mouse_x, locals.last_mouse_y>>

\* C28: in the camera demo the drag flag is true exactly when the most
\* recent left-button event was a press: it is false initially, a left press
\* sets it, a left release clears it, and no other event (another button, any
\* other type) nor any other step changes it. The camera is yawed and
\* pitched only at the end of the event processing of a frame in which the
\* flag is then true. The reference mouse position is set to the press
\* position by each left press and to the sampled position in each dragging
\* frame, and changes nowhere else, so that a rotation is measured from the
\* press position or from the previous dragging frame's sample.
C28_DragFlagAndRotation ==
    /\ (demo = "FreeCameraMovement" => ~locals.dragging)
    /\ [][\A e \in Events :
            (demo = "FreeCameraMovement" /\ MainPollEvent(e)) =>
                /\ locals'.dragging = (IF LeftPress(e) THEN TRUE
                                       ELSE IF LeftRelease(e) THEN FALSE
                                       ELSE locals.dragging)
                /\ LastMouse' = (IF LeftPress(e) THEN <<e.x, e.y>> ELSE LastMouse)
                /\ locals'.cam = locals.cam]_vars
    /\ [][locals'.dragging # locals.dragging =>
            \E e \in Events : (LeftPress(e) \/ LeftRelease(e)) /\ MainPollEvent(e)]_vars
    /\ [][(locals'.cam # locals.cam) => (MainPollEmpty /\ locals.dragging)]_vars
    /\ [][(demo = "FreeCameraMovement" /\ MainPollEmpty /\ locals.dragging) =>
            \E mouse \in MousePositions :
                /\ LastMouse' = mouse
                /\ locals'.cam.yaw = locals.cam.yaw - (mouse[1] - locals.last_mouse_x)
                /\ locals'.cam.pitch = locals.cam.pitch + (locals.last_mouse_y - mouse[2])]_vars
    /\ [][(LastMouse' # LastMouse) =>
            \/ \E e \in Events : LeftPress(e) /\ MainPollEvent(e)
            \/ MainPollEmpty /\ locals.dragging]_vars

\* C28 witness: after a left press at (640, 360) the mouse was sampled at
\* (650, 350) in a dragging frame: the camera has turned by the difference
\* and the sample is the new reference position
C28_Witness ==
    /\ demo = "FreeCameraMovement"
    /\ pc = "use"
    /\ locals.dragging
    /\ LastMouse = <<650, 350>>
    /\ locals.cam = [yaw |-> -10, pitch |-> 10]

Abs(value) == IF value < 0 THEN -value ELSE value

\* the offset on the axis is beyond its bound: |x| > 0.78, |y| > 0.8
BeyondBound(axis) ==
    IF axis = "x"
    THEN Abs(locals.translate_x_acc) > 78000
    ELSE Abs(locals.translate_y_acc) > 80000

Velocity == <<locals.translate_x, locals.translate_y>>
Offset == <<locals.translate_x_acc, locals.translate_y_acc>>

\* main of the DVD demo passes the if on the axis (first x, then y)
AxisStep(axis) ==
    /\ demo = "DVD_ScreenSaver"
    /\ pc = "uniforms" /\ cursor = (IF axis = "x" THEN 1 ELSE 2)
    /\ cursor' = cursor + 1

\* the uniforms of the demo's program, if it has one
StoredUniforms == IF Linked(shader_program) THEN Program(shader_program).uniforms ELSE << >>

\* C29: in the DVD demo each frame first adds velocity times elapsed time
\* to the offset on each axis; then, axis by axis, it negates the velocity
\* on the axis and writes a new random colour to objColor exactly when the
\* updated offset is beyond the bound (|x| > 0.78, |y| > 0.8); otherwise the
\* velocity and the colour are left as they are. Each random colour has red,
\* green and blue equal to k/255 for an integer k in 10..245, and alpha 1.
C29_BounceAndColour ==
    /\ [][(demo = "DVD_ScreenSaver" /\ MainPollEmpty) =>
            /\ \E ms \in FrameDurations :
                  /\ locals'.translate_x_acc = locals.translate_x_acc + locals.translate_x * ms
                  /\ locals'.translate_y_acc = locals.translate_y_acc + locals.translate_y * ms
            /\ Velocity' = Velocity
            /\ programs' = programs
            /\ pc' = "use"]_vars
    /\ [][(Offset' # Offset) => MainPollEmpty]_vars
    /\ [][\A axis \in {"x", "y"} :
            AxisStep(axis) =>
                IF BeyondBound(axis)
                THEN /\ Velocity' = IF axis = "x"
                                    THEN <<-locals.translate_x, locals.translate_y>>
                                    ELSE <<locals.translate_x, -locals.translate_y>>
                     /\ IF Linked(shader_program)
                        THEN LET colour == UniformOf(shader_program, "objColor")'.value
                             IN  /\ programs' = set_vec4(shader_program, "objColor", colour)
                                 /\ \A j \in 1 .. 3 : colour[j] \in 10 .. 245
                                 /\ colour[4] = 255
                        ELSE programs' = programs
                ELSE Velocity' = Velocity /\ programs' = programs]_vars
    /\ [][(Velocity' # Velocity) => (AxisStep("x") \/ AxisStep("y"))]_vars
    /\ [][(demo = "DVD_ScreenSaver" /\ StoredUniforms' # StoredUniforms /\ InLoop) =>
            \/ AxisStep("x") /\ BeyondBound("x")
            \/ AxisStep("y") /\ BeyondBound("y")
            \/ pc = "uniforms" /\ cursor = 3]_vars

\* C29 witness: the offset on x has passed the bound to the right, the
\* velocity on x has just been negated and a random colour stored
C29_Witness ==
    /\ demo = "DVD_ScreenSaver"
    /\ pc = "uniforms" /\ cursor = 2
    /\ locals.translate_x_acc > 78000
    /\ locals.translate_x = -50
    /\ Linked(shader_program)
    /\ UniformOf(shader_program, "objColor").value = <<10, 245, 10, 255>>

\* C30: in the DVD demo the sprite always heads back inside: for any
\* non-negative frame durations, at the end of every frame in which the
\* offset on an axis is beyond its bound, the velocity on that axis points
\* toward the interior (its sign is opposite to the offset's).
C30_HeadsBackInside ==
    (demo = "DVD_ScreenSaver" /\ Running /\ pc = "loop") =>
        /\ BeyondBound("x") => locals.translate_x * locals.translate_x_acc < 0
        /\ BeyondBound("y") => locals.translate_y * locals.translate_y_acc < 0

====
